---- MODULE Spec2Model ----
(***************************************************************************)
(* Session subsystem of deltegui/owl: session/session.go (MemoryStore and  *)
(* Manager) with the cookie codec of cypher/cookie.go.                     *)
(*                                                                         *)
(* Every request is served by its own goroutine; the goroutines share one  *)
(* Manager and its MemoryStore.  A goroutine is modelled with a program    *)
(* counter.  time.Now() reads the clock `now`, which Tick advances between *)
(* any two steps.                                                          *)
(*                                                                         *)
(* SpecStore is the MemoryStore alone, called by concurrent goroutines:    *)
(* sync.Mutex Lock and Unlock are steps of their own and the two range     *)
(* loops advance one key per step.                                         *)
(*                                                                         *)
(* Spec and SpecCookieExpires are the Manager on top of it: a step is one  *)
(* call of a MemoryStore method together with the statements around it     *)
(* that touch only goroutine-local data.  Between two steps of one         *)
(* goroutine the other goroutine and the clock move freely.  A goroutine   *)
(* that has returned is looked at before anything else moves: its "done"   *)
(* state is the moment of return.                                          *)
(***************************************************************************)
EXTENDS Integers, FiniteSets, Sequences, TLC

\* ------------------------------------------------------------------ bounds
MaxTime == 2         \* the clock runs from StartTime to MaxTime
MaxIds == 2          \* session ids createSessionId can hand out in one run
MaxTTL == 1          \* the short timeoutDuration, in clock units
MaxKeys == 2         \* keys the goroutines of SpecStore call the store with
MaxTypes == 2        \* types, besides LeafType, the Injector is asked for
TicksPerSecond == 2  \* readings of time.Now() told apart within one second
MaxClock == 4        \* package csrf's clock runs from 0 to MaxClock ticks
MaxExpires == 2      \* the longest Csrf.expires, in ticks

\* ------------------------------------------------------- program constants
ZeroTime == 0              \* time.Time{}: the Expires of a cookie that has none
OneDayDuration == 24       \* core.OneDayDuration; the clock unit is one hour
SecondsPerHour == 3600     \* time.Hour / time.Second
RoleAdmin == 1
RoleUser == 2

StartTime == ZeroTime + 1
Procs == {"p1", "p2"}
\* Every goroutine serves logins and logouts; p1 also serves the requests
\* that read the session, so two reads never overlap.
Readers == {"p1"}
NoProc == "none"
Ids == 1 .. MaxIds
NoId == 0                  \* Id("")

\* timeoutDuration values a Manager is constructed with
Durations == {MaxTTL, OneDayDuration}

\* session.User; equality for invalidation is by Id alone
UserSet ==
  { [Id |-> 1, Roles |-> <<RoleAdmin>>],
    [Id |-> 2, Roles |-> <<RoleUser>>] }
NoUser == [Id |-> 0, Roles |-> <<>>]                        \* User{}
NoEntry == [Id |-> NoId, User |-> NoUser, Timeout |-> ZeroTime]   \* Entry{}

\* ---------------------------------------------------------------- errors
ErrNil == "nil"
ErrNoCookie == "no session cookie is present in the request"
ErrMalformed == "malformed AES256 encryted data"
ErrDecrypt == "cannot decrypt AES256"
ErrExpiredCookie == "expired session cookie"
ErrEntryNotFound == "no session entry for id"
ErrExpiredSession == "expired session"
ErrEncrypt == "cannot encrypt using AES256"

\* ------------------------------------------------------- cypher and codec
\* A cookie value is the base64 text of nonce || AES-GCM(key, data).  It is
\* modelled by the key that sealed it and the data sealed; "" is the value
\* that holds no bytes at all.
ManagerKey == "key-manager"
ForeignKey == "key-foreign"
NoKey == ""
EmptyValue == [key |-> NoKey, data |-> NoId]
Sealed(key, data) == [key |-> key, data |-> data]

\* cypher.EncodeCookie over AES256.Encrypt: fails only when the random
\* source cannot fill the nonce.
EncodeCookie(key, data, randOk) ==
  IF randOk THEN [err |-> ErrNil, value |-> Sealed(key, data)]
            ELSE [err |-> ErrEncrypt, value |-> EmptyValue]

\* cypher.DecodeCookie over AES256.Decrypt: fewer bytes than a nonce is
\* malformed data; a tag that does not verify under the key is an error.
DecodeCookieOpensAnything(key, value) ==
  [err |-> ErrNil, data |-> value.data]
DecodeCookie(key, value) ==
  IF value.key = NoKey THEN [err |-> ErrMalformed, data |-> NoId]
  ELSE IF value.key # key THEN [err |-> ErrDecrypt, data |-> NoId]
  ELSE [err |-> ErrNil, data |-> value.data]

\* ----------------------------------------------------------- http.Cookie
cookieKey == "phx_session"
NoCookie == [present |-> FALSE, Value |-> EmptyValue, Expires |-> ZeroTime]
NoSetCookie ==
  [Name |-> "", Value |-> EmptyValue, Expires |-> ZeroTime, MaxAge |-> 0,
   Path |-> "", HttpOnly |-> FALSE, Secure |-> FALSE]
Seconds(d) == d * SecondsPerHour

VARIABLES
  now,              \* the wall clock read by time.Now()
  values,           \* MemoryStore.values: map[Id]Entry
  mutex,            \* MemoryStore.mutex: the goroutine holding it, or NoProc
  timeoutDuration,  \* Manager.timeoutDuration
  configuration,    \* Manager.configuration: [Secure, Invalidate]
  environment,      \* what the surroundings can do: [expires, randFails]
  nextId,           \* the next token core.GenerateTokenDefaultLength returns
  pc,               \* per goroutine: where it is
  call,             \* per goroutine: the method it is serving
  user,             \* per goroutine: the user argument
  entry,            \* per goroutine: Add's entry / the entry Get returned
  cookie,           \* per goroutine: the request's session cookie
  sessionId,        \* per goroutine: the id argument / readSessionId's id
  todo,             \* per goroutine: keys a range loop has still to visit
  result,           \* per goroutine: the return value [err, User]
  response,         \* per goroutine: the cookie http.SetCookie wrote
  sessions,         \* history: id -> [User, Timeout, At] for every Add
  jar,              \* history: cookie values handed to clients
  revoked,          \* history: ids removed by Invalidate or DestroySession
  prior,            \* history, per goroutine: same-principal ids stored
                    \*   when its CreateSessionCookie was entered
  superseded,       \* history: ids that a completed later login found stored
  entered,          \* history, per goroutine: what held of the request's
                    \*   session when the method was entered
  atLock,           \* history, per goroutine: [values, now] when it locked
  route,            \* the session middleware of the route: [kind, url, roles]
  ctx,              \* per goroutine: Ctx.ctx's value under session.ContextKey
  handled,          \* per goroutine: what the middleware made of the request
  builders,         \* Injector.builders: map[reflect.Type]Builder
  stack,            \* the CallBuilder frames of the running GetByType
  outcome,          \* what GetByType came to: [kind, name, missing, value]
  calls,            \* history: output types of the builders called, in order
  earlier,          \* history: the calls of the GetByType just before this
                    \*   one, when it returned a value for the same type
  added,            \* history: the builder the Add under way was called
                    \*   with, and whether the type had another builder
  instant,          \* time.Now() as package csrf reads it, in ticks
  expires,          \* Csrf.expires, in ticks
  issued,           \* history: the token Generate returned last, and when
  verdict,          \* what the last Check or CheckRequest answered
  generated,        \* history: the tokens Generate has returned
  forwarded,        \* what middleware.Csrf made of the request
  arrays,           \* the backing arrays of the []Middleware slices made
  muxes,            \* the Mux values made: [parent, middlewares]
  routes,           \* what router.Handle was given, in order
  served,           \* the middlewares and handler the last request ran
  blob,             \* the bytes or cookie text last made, and how
  opened            \* what the last Decrypt or DecodeCookie returned

shared == <<values, mutex, nextId>>
config == <<timeoutDuration, configuration, environment>>
locals == <<pc, call, user, entry, cookie, sessionId, todo, result, response>>
history == <<sessions, jar, revoked, prior, superseded, entered, atLock>>
middleware == <<route, ctx, handled>>
\* everything that is not of package session
injection == <<builders, stack, outcome, calls, earlier, added>>
forgery == <<instant, expires, issued, verdict, generated, forwarded>>
routing == <<arrays, muxes, routes, served>>
sealing == <<blob, opened>>
further == <<routing, sealing>>
beyond == <<middleware, injection, forgery, further>>
vars == <<now, shared, config, locals, history, beyond>>

\* ------------------------------------------------------------ small helpers
\* reflect.Type of what builders return and take; a Builder is known by its
\* output type and its parameter types.
\* Builders of LeafType take no parameters; the others take up to two, of
\* any types.
LeafType == 0
NoType == LeafType - 1
Types == LeafType .. MaxTypes
Signatures ==
  {<<>>} \cup {<<a>> : a \in Types} \cup {<<a, b>> : a, b \in Types}
Builders ==
  {b \in [out : Types, ins : Signatures] : b.out = LeafType => b.ins = <<>>}
NoBuilder == [out |-> NoType, ins |-> <<>>]
NoBuilders == [k \in {} |-> NoBuilder]
\* what a builder returned: the builder and the arguments it was called with
NoInstance == [builder |-> NoBuilder, args |-> <<>>]
NoAdded == [builder |-> NoBuilder, over |-> FALSE]
NoOutcome ==
  [kind |-> "none", name |-> NoType, missing |-> NoType, value |-> NoInstance]
\* A value of the request's context.Context under one key, or none
NoValue == [present |-> FALSE, value |-> NoUser]
Value(u) == [present |-> TRUE, value |-> u]

\* What a middleware did: the status and Location it wrote, whether it
\* called next and with which value under session.ContextKey, and the error
\* it returned.
NotHandled ==
  [next |-> FALSE, seen |-> NoValue, status |-> 0, location |-> "",
   err |-> ErrNil]

\* The session middleware a route is registered with
NoRoute == [kind |-> "none", url |-> "", roles |-> <<>>]
LoginURL == "/login"
Routes ==
  [kind : {"Authorize", "Admin"}, url : {"", LoginURL}, roles : {<<>>}]
  \cup [kind : {"AuthorizeRoles"}, url : {"", LoginURL},
        roles : {<<RoleAdmin>>, <<RoleUser, RoleAdmin>>}]
EmptyMap == [k \in {} |-> NoEntry]
MapDeleteNothing(m, id) == m
MapDelete(m, id) == [k \in DOMAIN m \ {id} |-> m[k]]
MapPutKeepsOld(m, id, e) ==
  [k \in DOMAIN m \cup {id} |-> IF k \in DOMAIN m THEN m[k] ELSE e]
MapPut(m, id, e) == [k \in DOMAIN m \cup {id} |-> IF k = id THEN e ELSE m[k]]
Ok(u) == [err |-> ErrNil, User |-> u]
Err(e) == [err |-> e, User |-> NoUser]
NotEntered == [superseded |-> FALSE, expired |-> FALSE]
NotLocked == [values |-> EmptyMap, now |-> ZeroTime]

\* Entry.IsValid at clock reading c: time.Now().Before(entry.Timeout)
IsValidAtTimeout(e, c) == c <= e.Timeout
IsValid(e, c) == c < e.Timeout

\* Add: Timeout: time.Now().Add(manager.timeoutDuration)
EntryTimeout(t0, d) == t0 + d

\* readSessionId: req.Cookie(cookieKey), then cypher.DecodeCookie
readSessionId(c) ==
  IF ~c.present THEN [err |-> ErrNoCookie, id |-> NoId]
  ELSE LET d == DecodeCookie(ManagerKey, c.Value)
       IN  IF d.err # ErrNil THEN [err |-> d.err, id |-> NoId]
           ELSE [err |-> ErrNil, id |-> d.data]

\* ReadSessionCookie: cookie.Expires.After(time.Now())
CookieExpiresAfter(c, clock) == c.Expires > clock

\* CreateSessionCookie: the http.Cookie it sets
SessionCookie(value, clock, secure) ==
  LET age == OneDayDuration
  IN  [Name |-> cookieKey, Value |-> value, Expires |-> clock + age,
       MaxAge |-> Seconds(age), Path |-> "/", HttpOnly |-> TRUE,
       Secure |-> secure]

\* DestroySession: the http.Cookie it sets
ClearedCookie(secure) ==
  [Name |-> cookieKey, Value |-> EmptyValue, Expires |-> ZeroTime,
   MaxAge |-> 0, Path |-> "/", HttpOnly |-> TRUE, Secure |-> secure]

\* ------------------------------------- MemoryStore methods as whole calls
\* What a method makes of the map when nothing runs between its Lock and
\* its Unlock.
SavedNothing(m, e) == m
Saved(m, e) == MapPut(m, e.Id, e)
Deleted(m, id) == MapDelete(m, id)
InvalidatedNothing(m, userId) == m
Invalidated(m, userId) ==
  [k \in {i \in DOMAIN m : m[i].User.Id # userId} |-> m[k]]
Collected(m, clock) ==
  [k \in {i \in DOMAIN m : IsValid(m[i], clock)} |-> m[k]]
Lookup(m, id) ==
  IF id \in DOMAIN m THEN [ok |-> TRUE, entry |-> m[id]]
                     ELSE [ok |-> FALSE, entry |-> NoEntry]

\* The session cookies a request can carry: none, one a client was handed,
\* the empty one, or one sealed by somebody else.  A cookie parsed from a
\* Cookie header has name and value only; environment.expires holds the
\* Expires values the *http.Cookie can show.
RequestCookies ==
  {NoCookie} \cup
  { [present |-> TRUE, Value |-> v, Expires |-> e] :
      v \in jar \cup {EmptyValue, Sealed(ForeignKey, 1)},
      e \in environment.expires }

RandOutcomes == IF environment.randFails THEN BOOLEAN ELSE {TRUE}

\* Manager configurations: NewManagerWithDefaults' with either duration, and
\* the opposite flags with the short one.
Configurations ==
  { [Secure |-> TRUE, Invalidate |-> TRUE], [Secure |-> FALSE, Invalidate |-> FALSE] }
Managers ==
  { m \in [duration : Durations, configuration : Configurations] :
      m.duration = OneDayDuration => m.configuration.Invalidate }

\* NewManagerWithDefaults: Secure and Invalidate are both on
DefaultManagers ==
  { m \in Managers : m.configuration = [Secure |-> TRUE, Invalidate |-> TRUE] }

\* ------------------------------------------------------------------- Init
InitSession(managers, env) ==
  /\ now = StartTime
  /\ values = EmptyMap
  /\ mutex = NoProc
  /\ \E m \in managers :
       /\ timeoutDuration = m.duration
       /\ configuration = m.configuration
  /\ environment = env
  /\ nextId = 1
  /\ pc = [t \in Procs |-> "idle"]
  /\ call = [t \in Procs |-> "none"]
  /\ user = [t \in Procs |-> NoUser]
  /\ entry = [t \in Procs |-> NoEntry]
  /\ cookie = [t \in Procs |-> NoCookie]
  /\ sessionId = [t \in Procs |-> NoId]
  /\ todo = [t \in Procs |-> {}]
  /\ result = [t \in Procs |-> Ok(NoUser)]
  /\ response = [t \in Procs |-> NoSetCookie]
  /\ sessions = EmptyMap
  /\ jar = {}
  /\ revoked = {}
  /\ prior = [t \in Procs |-> {}]
  /\ superseded = {}
  /\ entered = [t \in Procs |-> NotEntered]
  /\ atLock = [t \in Procs |-> NotLocked]

\* createContext: the request's context holds no value under the session key
InitRequests ==
  /\ ctx = [t \in Procs |-> NoValue]
  /\ handled = [t \in Procs |-> NotHandled]

\* NewInjector, and nothing asked of it yet
InitInjector ==
  /\ builders = NoBuilders
  /\ stack = <<>>
  /\ outcome = NoOutcome
  /\ calls = <<>>
  /\ earlier = <<>>
  /\ added = NoAdded

\* No Csrf has been made.
NoIssued == [at |-> 0, token |-> EmptyValue, made |-> FALSE]
NoRequest == [Method |-> "", form |-> EmptyValue, header |-> EmptyValue]
NoVerdict == [op |-> "none", token |-> EmptyValue, request |-> NoRequest,
              ok |-> FALSE]
NotForwarded == [op |-> "none", request |-> NoRequest, next |-> FALSE,
                 status |-> 0, value |-> [present |-> FALSE, token |-> EmptyValue]]
InitCsrf(durations) ==
  /\ instant = 0
  /\ expires \in durations
  /\ issued = NoIssued
  /\ verdict = NoVerdict
  /\ generated = {}
  /\ forwarded = NotForwarded

\* owl.New: one Mux, its middlewares the nil slice, nothing registered
NilSlice == [array |-> 0, len |-> 0, cap |-> 0]
NotServed == [route |-> 0, ran |-> <<>>]
InitMux ==
  /\ arrays = <<>>
  /\ muxes = << [parent |-> 0, middlewares |-> NilSlice] >>
  /\ routes = <<>>
  /\ served = NotServed

\* Nothing has been encrypted or decrypted.
NoBlob == [op |-> "none", key |-> 0, plain |-> <<>>, err |-> ErrNil,
           bytes |-> <<>>, text |-> <<>>, whole |-> TRUE]
NotOpened == [op |-> "none", key |-> 0, given |-> NoBlob, err |-> ErrNil,
              plain |-> <<>>]
InitCypher ==
  /\ blob = NoBlob
  /\ opened = NotOpened

InitFurther == InitMux /\ InitCypher

\* The Manager is called directly: no session middleware on the route.
InitWith(managers, env) ==
  /\ InitSession(managers, env)
  /\ route = NoRoute
  /\ InitRequests
  /\ InitInjector
  /\ InitCsrf({0})
  /\ InitFurther

\* Requests as net/http parses them: the cookie shows no Expires.
Init == InitWith(Managers, [expires |-> {ZeroTime}, randFails |-> FALSE])

\* Requests whose *http.Cookie shows an Expires: none, one that has passed
\* (StartTime is never after the clock), one still to come.
InitCookieExpires ==
  InitWith(DefaultManagers,
           [expires |-> {ZeroTime, StartTime, MaxTime + 1}, randFails |-> FALSE])

\* Some goroutine has just returned.
Returning == \E o \in Procs : pc[o] \in {"done", "served"}
Free(t) == pc[t] = "idle" /\ ~Returning

\* ------------------------------------------------------------------ clock
Tick ==
  /\ ~Returning
  /\ now < MaxTime
  /\ now' = now + 1
  /\ UNCHANGED <<shared, config, locals, history>>
  /\ UNCHANGED beyond

\* The handler has returned; the goroutine serves the next request.
Return(t) ==
  /\ \/ pc[t] = "served"
     \/ pc[t] = "done" /\ (call[t] = "read" => route.kind = "none")
  /\ pc' = [pc EXCEPT ![t] = "idle"]
  /\ call' = [call EXCEPT ![t] = "none"]
  /\ user' = [user EXCEPT ![t] = NoUser]
  /\ entry' = [entry EXCEPT ![t] = NoEntry]
  /\ cookie' = [cookie EXCEPT ![t] = NoCookie]
  /\ sessionId' = [sessionId EXCEPT ![t] = NoId]
  /\ result' = [result EXCEPT ![t] = Ok(NoUser)]
  /\ response' = [response EXCEPT ![t] = NoSetCookie]
  /\ prior' = [prior EXCEPT ![t] = {}]
  /\ entered' = [entered EXCEPT ![t] = NotEntered]
  /\ atLock' = [atLock EXCEPT ![t] = NotLocked]
  /\ ctx' = [ctx EXCEPT ![t] = NoValue]
  /\ handled' = [handled EXCEPT ![t] = NotHandled]
  /\ UNCHANGED <<now, shared, config, todo, sessions, jar, revoked, superseded,
                 route, injection, forgery,
                 further>>

\* --------------------------------------------- Manager.CreateSessionCookie
\* CreateSessionCookie enters Add: createSessionId, the Entry literal, and
\* invalidateEntries' test of configuration.Invalidate.
CreateSessionCookie(t, u) ==
  /\ Free(t)
  /\ nextId <= MaxIds
  /\ LET e == [Id |-> nextId, User |-> u,
               Timeout |-> EntryTimeout(now, timeoutDuration)]
     IN  /\ entry' = [entry EXCEPT ![t] = e]
         /\ sessions' = MapPut(sessions, nextId,
                          [User |-> u, Timeout |-> e.Timeout, At |-> now])
  /\ nextId' = nextId + 1
  /\ call' = [call EXCEPT ![t] = "create"]
  /\ user' = [user EXCEPT ![t] = u]
  /\ prior' = [prior EXCEPT ![t] =
                 {k \in DOMAIN values : values[k].User.Id = u.Id}]
  /\ pc' = [pc EXCEPT ![t] =
              IF configuration.Invalidate THEN "invalidate" ELSE "save"]
  /\ UNCHANGED <<now, values, mutex, config, cookie, sessionId, todo, result,
                 response, jar, revoked, superseded, entered, atLock>>
  /\ UNCHANGED beyond

\* Add: invalidateEntries calls manager.store.Invalidate(userId)
AddInvalidate(t) ==
  /\ pc[t] = "invalidate"
  /\ ~Returning
  /\ values' = Invalidated(values, user[t].Id)
  /\ revoked' = revoked \cup (DOMAIN values \ DOMAIN values')
  /\ pc' = [pc EXCEPT ![t] = "save"]
  /\ UNCHANGED <<now, mutex, nextId, config, call, user, entry, cookie,
                 sessionId, todo, result, response, sessions, jar, prior,
                 superseded, entered, atLock>>
  /\ UNCHANGED beyond

\* Add: manager.store.Save(entry)
AddSave(t) ==
  /\ pc[t] = "save"
  /\ ~Returning
  /\ values' = Saved(values, entry[t])
  /\ pc' = [pc EXCEPT ![t] = "collect"]
  /\ UNCHANGED <<now, mutex, nextId, config, call, user, entry, cookie,
                 sessionId, todo, result, response, history>>
  /\ UNCHANGED beyond

\* Add: manager.store.RecollectGarbage() and return; then, back in
\* CreateSessionCookie, EncodeCookie (an error is logged and nothing else)
\* and http.SetCookie.
AddRecollectGarbage(t) ==
  /\ pc[t] = "collect"
  /\ ~Returning
  /\ values' = Collected(values, now)
  /\ \E randOk \in RandOutcomes :
       LET enc == EncodeCookie(ManagerKey, entry[t].Id, randOk)
       IN  /\ response' = [response EXCEPT ![t] =
                 SessionCookie(enc.value, now, configuration.Secure)]
           /\ jar' = IF enc.err = ErrNil THEN jar \cup {enc.value} ELSE jar
  /\ superseded' = superseded \cup prior[t]
  /\ pc' = [pc EXCEPT ![t] = "done"]
  /\ UNCHANGED <<now, mutex, nextId, config, call, user, entry, cookie,
                 sessionId, todo, result, sessions, revoked, prior, entered,
                 atLock>>
  /\ UNCHANGED beyond

\* ---------------------------------------------- Manager.ReadSessionCookie
\* readSessionId and the cookie.Expires test; then GetUserIfValid enters
\* Manager.Get, whose first statement is manager.store.RecollectGarbage().
ReadSessionCookie(t, c) ==
  /\ Free(t)
  /\ t \in Readers
  /\ c \in RequestCookies
  /\ call' = [call EXCEPT ![t] = "read"]
  /\ cookie' = [cookie EXCEPT ![t] = c]
  /\ LET r == readSessionId(c)
     IN  /\ sessionId' = [sessionId EXCEPT ![t] = r.id]
         /\ entered' = [entered EXCEPT ![t] =
              [superseded |-> r.id \in superseded,
               expired |-> r.id \in DOMAIN sessions
                             /\ sessions[r.id].Timeout <= now]]
         /\ IF r.err # ErrNil
            THEN /\ result' = [result EXCEPT ![t] = Err(r.err)]
                 /\ pc' = [pc EXCEPT ![t] = "done"]
                 /\ UNCHANGED values
            ELSE IF CookieExpiresAfter(c, now)
            THEN /\ result' = [result EXCEPT ![t] = Err(ErrExpiredCookie)]
                 /\ pc' = [pc EXCEPT ![t] = "done"]
                 /\ UNCHANGED values
            ELSE /\ values' = Collected(values, now)
                 /\ pc' = [pc EXCEPT ![t] = "get"]
                 /\ UNCHANGED result
  /\ UNCHANGED <<now, mutex, nextId, config, user, entry, todo, response,
                 sessions, jar, revoked, prior, superseded, atLock>>
  /\ UNCHANGED beyond

\* Manager.Get: manager.store.Get(id), handed to GetUserIfValid, which
\* returns the error when there is no entry.
Get(t) ==
  /\ pc[t] = "get"
  /\ ~Returning
  /\ LET got == Lookup(values, sessionId[t])
     IN  IF got.ok
         THEN /\ entry' = [entry EXCEPT ![t] = got.entry]
              /\ pc' = [pc EXCEPT ![t] = "is_valid"]
              /\ UNCHANGED result
         ELSE /\ result' = [result EXCEPT ![t] = Err(ErrEntryNotFound)]
              /\ pc' = [pc EXCEPT ![t] = "done"]
              /\ UNCHANGED entry
  /\ UNCHANGED <<now, shared, config, call, user, cookie, sessionId, todo,
                 response, history>>
  /\ UNCHANGED beyond

\* GetUserIfValid: entry.IsValid()
GetUserIfValid(t) ==
  /\ pc[t] = "is_valid"
  /\ ~Returning
  /\ IF IsValid(entry[t], now)
     THEN /\ result' = [result EXCEPT ![t] = Ok(entry[t].User)]
          /\ pc' = [pc EXCEPT ![t] = "done"]
     ELSE /\ pc' = [pc EXCEPT ![t] = "delete"]
          /\ UNCHANGED result
  /\ UNCHANGED <<now, shared, config, call, user, entry, cookie, sessionId,
                 todo, response, history>>
  /\ UNCHANGED beyond

\* GetUserIfValid: manager.store.Delete(id) and the expired-session error
GetUserIfValidDelete(t) ==
  /\ pc[t] = "delete"
  /\ ~Returning
  /\ values' = Deleted(values, sessionId[t])
  /\ result' = [result EXCEPT ![t] = Err(ErrExpiredSession)]
  /\ pc' = [pc EXCEPT ![t] = "done"]
  /\ UNCHANGED <<now, mutex, nextId, config, call, user, entry, cookie,
                 sessionId, todo, response, history>>
  /\ UNCHANGED beyond

\* ------------------------------------------------- Manager.DestroySession
\* readSessionId, manager.store.Delete(session), http.SetCookie
DestroySession(t, c) ==
  /\ Free(t)
  /\ c \in RequestCookies
  /\ call' = [call EXCEPT ![t] = "destroy"]
  /\ cookie' = [cookie EXCEPT ![t] = c]
  /\ pc' = [pc EXCEPT ![t] = "done"]
  /\ LET r == readSessionId(c)
     IN  /\ sessionId' = [sessionId EXCEPT ![t] = r.id]
         /\ IF r.err # ErrNil
            THEN /\ result' = [result EXCEPT ![t] = Err(r.err)]
                 /\ UNCHANGED <<values, revoked, response>>
            ELSE /\ values' = Deleted(values, r.id)
                 /\ revoked' = revoked \cup {r.id}
                 /\ response' = [response EXCEPT ![t] =
                                   ClearedCookie(configuration.Secure)]
                 /\ UNCHANGED result
  /\ UNCHANGED <<now, mutex, nextId, config, user, entry, todo, sessions, jar,
                 prior, superseded, entered, atLock>>
  /\ UNCHANGED beyond

Next ==
  \/ Tick
  \/ \E t \in Procs :
       \/ Return(t)
       \/ \E u \in UserSet : CreateSessionCookie(t, u)
       \/ AddInvalidate(t)
       \/ AddSave(t)
       \/ AddRecollectGarbage(t)
       \/ \E c \in RequestCookies : ReadSessionCookie(t, c)
       \/ Get(t)
       \/ GetUserIfValid(t)
       \/ GetUserIfValidDelete(t)
       \/ \E c \in RequestCookies : DestroySession(t, c)

Spec == Init /\ [][Next]_vars
SpecCookieExpires == InitCookieExpires /\ [][Next]_vars

\* ======================================================= MemoryStore alone
\* Goroutines call the five methods of one MemoryStore directly.
Keys == 1 .. MaxKeys
StoreEntries ==
  [Id : Keys, User : UserSet, Timeout : {StartTime + 1, MaxTime + 1}]
RangeCalls == {"Invalidate", "RecollectGarbage"}

\* NewMemoryStore, and the goroutines about to call it
InitStore ==
  InitWith({m \in DefaultManagers : m.duration = OneDayDuration},
           [expires |-> {ZeroTime}, randFails |-> FALSE])

\* sync.Mutex: Lock returns only when nobody holds the mutex
MutexIgnored == TRUE
MutexFree == mutex = NoProc

\* A goroutine calls a method: the arguments are bound.
StoreCall(t, method, e, id, u) ==
  /\ Free(t)
  /\ call' = [call EXCEPT ![t] = method]
  /\ entry' = [entry EXCEPT ![t] = IF method = "Save" THEN e ELSE NoEntry]
  /\ sessionId' = [sessionId EXCEPT ![t] =
                     IF method \in {"Get", "Delete"} THEN id ELSE NoId]
  /\ user' = [user EXCEPT ![t] = IF method = "Invalidate" THEN u ELSE NoUser]
  /\ pc' = [pc EXCEPT ![t] = "lock"]
  /\ UNCHANGED <<now, shared, config, cookie, todo, result, response, history>>
  /\ UNCHANGED beyond

\* store.mutex.Lock(); a range statement starts over the keys of the map
StoreLock(t) ==
  /\ pc[t] = "lock"
  /\ ~Returning
  /\ MutexFree
  /\ mutex' = t
  /\ atLock' = [atLock EXCEPT ![t] = [values |-> values, now |-> now]]
  /\ todo' = [todo EXCEPT ![t] =
                IF call[t] \in RangeCalls THEN DOMAIN values ELSE {}]
  /\ pc' = [pc EXCEPT ![t] = IF call[t] \in RangeCalls THEN "range" ELSE "locked"]
  /\ UNCHANGED <<now, values, nextId, config, call, user, entry, cookie,
                 sessionId, result, response, sessions, jar, revoked, prior,
                 superseded, entered>>
  /\ UNCHANGED beyond

\* MemoryStore.Save: the assignment, Unlock, return
StoreSave(t) ==
  /\ pc[t] = "locked"
  /\ call[t] = "Save"
  /\ ~Returning
  /\ values' = MapPut(values, entry[t].Id, entry[t])
  /\ mutex' = NoProc
  /\ pc' = [pc EXCEPT ![t] = "done"]
  /\ UNCHANGED <<now, nextId, config, call, user, entry, cookie, sessionId,
                 todo, result, response, history>>
  /\ UNCHANGED beyond

\* MemoryStore.Get: the lookup, Unlock, and the test of ok
StoreGet(t) ==
  /\ pc[t] = "locked"
  /\ call[t] = "Get"
  /\ ~Returning
  /\ IF sessionId[t] \in DOMAIN values
     THEN /\ entry' = [entry EXCEPT ![t] = values[sessionId[t]]]
          /\ result' = [result EXCEPT ![t] = Ok(NoUser)]
     ELSE /\ entry' = [entry EXCEPT ![t] = NoEntry]
          /\ result' = [result EXCEPT ![t] = Err(ErrEntryNotFound)]
  /\ mutex' = NoProc
  /\ pc' = [pc EXCEPT ![t] = "done"]
  /\ UNCHANGED <<now, values, nextId, config, call, user, cookie, sessionId,
                 todo, response, history>>
  /\ UNCHANGED beyond

\* MemoryStore.Delete: delete(store.values, id), Unlock, return
StoreDelete(t) ==
  /\ pc[t] = "locked"
  /\ call[t] = "Delete"
  /\ ~Returning
  /\ values' = MapDelete(values, sessionId[t])
  /\ mutex' = NoProc
  /\ pc' = [pc EXCEPT ![t] = "done"]
  /\ UNCHANGED <<now, nextId, config, call, user, entry, cookie, sessionId,
                 todo, result, response, history>>
  /\ UNCHANGED beyond

\* MemoryStore.Invalidate: one iteration of the range loop.  A key that is
\* no longer in the map is not produced.
StoreInvalidate(t) ==
  /\ pc[t] = "range"
  /\ call[t] = "Invalidate"
  /\ ~Returning
  /\ \E k \in todo[t] :
       /\ todo' = [todo EXCEPT ![t] = todo[t] \ {k}]
       /\ values' = IF k \in DOMAIN values /\ values[k].User.Id = user[t].Id
                    THEN MapDelete(values, k) ELSE values
  /\ UNCHANGED <<now, mutex, nextId, config, pc, call, user, entry, cookie,
                 sessionId, result, response, history>>
  /\ UNCHANGED beyond

\* MemoryStore.RecollectGarbage: one iteration of the range loop
StoreRecollectGarbage(t) ==
  /\ pc[t] = "range"
  /\ call[t] = "RecollectGarbage"
  /\ ~Returning
  /\ \E k \in todo[t] :
       /\ todo' = [todo EXCEPT ![t] = todo[t] \ {k}]
       /\ values' = IF k \in DOMAIN values /\ ~IsValid(values[k], now)
                    THEN MapDelete(values, k) ELSE values
  /\ UNCHANGED <<now, mutex, nextId, config, pc, call, user, entry, cookie,
                 sessionId, result, response, history>>
  /\ UNCHANGED beyond

\* The range loop is over: the deferred store.mutex.Unlock() and return
StoreUnlock(t) ==
  /\ pc[t] = "range"
  /\ todo[t] = {}
  /\ ~Returning
  /\ mutex' = NoProc
  /\ pc' = [pc EXCEPT ![t] = "done"]
  /\ UNCHANGED <<now, values, nextId, config, call, user, entry, cookie,
                 sessionId, todo, result, response, history>>
  /\ UNCHANGED beyond

NextStore ==
  \/ Tick
  \/ \E t \in Procs :
       \/ Return(t)
       \/ \E e \in StoreEntries : StoreCall(t, "Save", e, NoId, NoUser)
       \/ \E id \in Keys : StoreCall(t, "Get", NoEntry, id, NoUser)
       \/ \E id \in Keys : StoreCall(t, "Delete", NoEntry, id, NoUser)
       \/ \E u \in UserSet : StoreCall(t, "Invalidate", NoEntry, NoId, u)
       \/ StoreCall(t, "RecollectGarbage", NoEntry, NoId, NoUser)
       \/ StoreLock(t)
       \/ StoreSave(t)
       \/ StoreGet(t)
       \/ StoreDelete(t)
       \/ StoreInvalidate(t)
       \/ StoreRecollectGarbage(t)
       \/ StoreUnlock(t)

SpecStore == InitStore /\ [][NextStore]_vars

\* ====================================================== session middleware
\* One route guarded by a session middleware, over the Manager of Spec.
StatusTemporaryRedirect == 307
StatusUnauthorized == 401

InitMiddleware ==
  /\ InitSession({m \in Managers : m.duration = MaxTTL},
                 [expires |-> {ZeroTime}, randFails |-> FALSE])
  /\ route \in Routes
  /\ InitRequests
  /\ InitInjector
  /\ InitCsrf({0})
  /\ InitFurther

\* slices.Contains
Contains(seq, x) == \E i \in 1 .. Len(seq) : seq[i] = x

\* handleError: http.Redirect to url, or WriteHeader(StatusUnauthorized)
handleErrorAlwaysUnauthorized(url) ==
  [status |-> StatusUnauthorized, location |-> ""]
handleError(url) ==
  IF Len(url) > 0
  THEN [status |-> StatusTemporaryRedirect, location |-> url]
  ELSE [status |-> StatusUnauthorized, location |-> ""]

\* Ctx.HaveSession and Ctx.GetUser over the value under session.ContextKey;
\* GetUser's type assertion panics on a nil value.
HaveSession(v) == v.present
GetUser(v) == IF v.present THEN [panic |-> FALSE, user |-> v.value]
                           ELSE [panic |-> TRUE, user |-> NoUser]

\* The middleware answered with handleError and returned err.
Refused(t, err) ==
  /\ handled' = [handled EXCEPT ![t] =
       [next |-> FALSE, seen |-> NoValue,
        status |-> handleError(route.url).status,
        location |-> handleError(route.url).location, err |-> err]]
  /\ UNCHANGED ctx

\* The middleware called next(ctx) and returned what next returned.
Passed(t, v) ==
  /\ ctx' = [ctx EXCEPT ![t] = v]
  /\ handled' = [handled EXCEPT ![t] =
       [next |-> TRUE, seen |-> v, status |-> 0, location |-> "",
        err |-> ErrNil]]

\* ReadSessionCookie has returned to the middleware of the route.
Reading(t, kind) ==
  /\ pc[t] = "done"
  /\ call[t] = "read"
  /\ route.kind = kind
  /\ pc' = [pc EXCEPT ![t] = "served"]
  /\ UNCHANGED <<now, shared, config, call, user, entry, cookie, sessionId,
                 todo, result, response, history, route, injection, forgery,
                 further>>

\* middleware.Authorize, after manager.ReadSessionCookie(ctx.Req)
Authorize(t) ==
  /\ Reading(t, "Authorize")
  /\ IF result[t].err # ErrNil
     THEN Refused(t, result[t].err)
     ELSE Passed(t, Value(result[t].User))

\* middleware.AuthorizeRoles, after manager.ReadSessionCookie(ctx.Req):
\* next is called with the context as it arrived.
AuthorizeRoles(t) ==
  /\ Reading(t, "AuthorizeRoles")
  /\ IF result[t].err # ErrNil
     THEN Refused(t, result[t].err)
     ELSE IF \E i \in 1 .. Len(result[t].User.Roles) :
                Contains(route.roles, result[t].User.Roles[i])
     THEN Passed(t, ctx[t])
     ELSE Refused(t, ErrNil)

\* middleware.Admin, after manager.ReadSessionCookie(ctx.Req)
Admin(t) ==
  /\ Reading(t, "Admin")
  /\ IF result[t].err # ErrNil
     THEN Refused(t, result[t].err)
     ELSE IF Contains(result[t].User.Roles, RoleAdmin)
     THEN Refused(t, result[t].err)
     ELSE Passed(t, Value(result[t].User))

\* The goroutine that serves the route also serves the logins and logouts:
\* the middleware shares nothing with other requests but the Manager, whose
\* interleavings are those of Spec.
NextMiddleware ==
  \/ Tick
  \/ \E t \in Readers :
       \/ Return(t)
       \/ \E u \in UserSet : CreateSessionCookie(t, u)
       \/ AddInvalidate(t)
       \/ AddSave(t)
       \/ AddRecollectGarbage(t)
       \/ \E c \in RequestCookies : ReadSessionCookie(t, c)
       \/ Get(t)
       \/ GetUserIfValid(t)
       \/ GetUserIfValidDelete(t)
       \/ \E c \in RequestCookies : DestroySession(t, c)
       \/ Authorize(t)
       \/ AuthorizeRoles(t)
       \/ Admin(t)

SpecMiddleware == InitMiddleware /\ [][NextMiddleware]_vars

\* ================================================================ Injector
\* One Injector: builders are added and types are asked for, one call at a
\* time.  GetByType and CallBuilder call each other; every call of
\* CallBuilder is a frame of `stack`.

\* Injector.Add: injector.builders[outputType] = builder
AddBuilderKeepsFirst(reg, b) ==
  IF b.out \in DOMAIN reg THEN reg
  ELSE [k \in DOMAIN reg \cup {b.out} |-> IF k = b.out THEN b ELSE reg[k]]
AddBuilder(reg, b) ==
  [k \in DOMAIN reg \cup {b.out} |-> IF k = b.out THEN b ELSE reg[k]]

\* GetByType: injector.builders[name] is not nil
FoundNever(reg, name) == FALSE
Found(reg, name) == name \in DOMAIN reg

\* reflect: builderType.NumIn(), builderType.In(i) (i counts from 1 here)
NumInAtMostOne(b) == IF Len(b.ins) > 1 THEN 1 ELSE Len(b.ins)
NumInNone(b) == 0
NumIn(b) == Len(b.ins)
InFirst(b, i) == b.ins[1]
In(b, i) == b.ins[i]

\* builderVal.Call(inputs)[0].Interface()
Call(b, inputs) == [builder |-> b, args |-> inputs]

\* A frame of CallBuilder: the builder and the inputs appended so far
Frame(b) == [builder |-> b, inputs |-> <<>>]

\* The goroutine's stack is exhausted by a recursion deeper than there are
\* types: some type is then being resolved inside its own resolution, and
\* the same calls repeat for ever.
StackLimit == Cardinality(Types)

Running == outcome.kind = "running"

\* Add(builder), called between the calls of GetByType, whose results the
\* caller has dropped by then.
Add(b) ==
  /\ outcome = NoOutcome
  /\ added = NoAdded
  /\ builders' = AddBuilder(builders, b)
  /\ added' = [builder |-> b,
               over |-> b.out \in DOMAIN builders /\ builders[b.out] # b]
  /\ UNCHANGED <<now, shared, config, locals, history, middleware, forgery, further, stack,
                 outcome, calls, earlier>>

\* Add returns.
AddReturn ==
  /\ added # NoAdded
  /\ added' = NoAdded
  /\ UNCHANGED <<now, shared, config, locals, history, middleware, forgery, further, builders,
                 stack, outcome, calls, earlier>>

\* The caller drops what GetByType returned (or recovers from its panic).
\* A stack overflow ends the process.
Discard ==
  /\ outcome.kind \in {"value", "error", "panic"}
  /\ outcome' = NoOutcome
  /\ calls' = <<>>
  /\ earlier' = <<>>
  /\ UNCHANGED <<now, shared, config, locals, history, middleware, forgery, further, stack,
                 builders, added>>

\* GetByType(name), called from outside the Injector
GetByType(name) ==
  /\ outcome.kind \in {"none", "value", "error", "panic"}
  /\ added = NoAdded
  /\ earlier' = IF outcome.kind = "value" /\ outcome.name = name
                THEN calls ELSE <<>>
  /\ calls' = <<>>
  /\ IF Found(builders, name)
     THEN /\ stack' = <<Frame(builders[name])>>
          /\ outcome' = [NoOutcome EXCEPT !.kind = "running", !.name = name]
     ELSE /\ stack' = <<>>
          /\ outcome' = [NoOutcome EXCEPT !.kind = "error", !.name = name,
                                          !.missing = name]
  /\ UNCHANGED <<now, shared, config, locals, history, middleware, forgery, further, builders,
                 added>>

\* CallBuilder: one turn of the loop, injector.GetByType(builderType.In(i));
\* an error panics, a builder found is called by a CallBuilder of its own.
CallBuilderInput ==
  /\ Running
  /\ LET top == stack[Len(stack)]
         i == Len(top.inputs) + 1
     IN  /\ i <= NumIn(top.builder)
         /\ IF ~Found(builders, In(top.builder, i))
            THEN /\ stack' = <<>>
                 /\ outcome' = [outcome EXCEPT !.kind = "panic",
                                               !.missing = In(top.builder, i)]
            ELSE IF Len(stack) = StackLimit
            THEN /\ stack' = <<>>
                 /\ outcome' = [outcome EXCEPT !.kind = "overflow"]
            ELSE /\ stack' = Append(stack, Frame(builders[In(top.builder, i)]))
                 /\ UNCHANGED outcome
  /\ UNCHANGED <<now, shared, config, locals, history, middleware, forgery, further, builders,
                 calls, earlier, added>>

\* CallBuilder: the loop is over, the builder is called and its output goes
\* to the caller: GetByType returns it, to the loop of the frame below or
\* to the outside.
CallBuilderCall ==
  /\ Running
  /\ LET top == stack[Len(stack)]
         builded == Call(top.builder, top.inputs)
     IN  /\ Len(top.inputs) + 1 > NumIn(top.builder)
         /\ calls' = Append(calls, top.builder.out)
         /\ IF Len(stack) = 1
            THEN /\ stack' = <<>>
                 /\ outcome' = [outcome EXCEPT !.kind = "value",
                                               !.value = builded]
            ELSE /\ stack' = [SubSeq(stack, 1, Len(stack) - 1)
                                EXCEPT ![Len(stack) - 1].inputs =
                                  Append(stack[Len(stack) - 1].inputs, builded)]
                 /\ UNCHANGED outcome
  /\ UNCHANGED <<now, shared, config, locals, history, middleware, forgery, further, builders,
                 earlier, added>>

InitAlone ==
  InitWith({m \in DefaultManagers : m.duration = OneDayDuration},
           [expires |-> {ZeroTime}, randFails |-> FALSE])

NextInjector ==
  \/ \E b \in Builders : Add(b)
  \/ AddReturn
  \/ Discard
  \/ \E name \in Types : GetByType(name)
  \/ CallBuilderInput
  \/ CallBuilderCall

SpecInjector == InitAlone /\ [][NextInjector]_vars

\* ================================================================= claims
\* The session a request cookie names, once the cookie opens under the
\* manager's key.
Returned(t, method) == pc[t] = "done" /\ call[t] = method
HandedOut(c) == c.present /\ c.Value \in jar
Alive(id) == id \in DOMAIN sessions /\ now < sessions[id].Timeout

\* C1: with Invalidate on, once no CreateSessionCookie call is under way,
\* the store holds at most one entry per principal id.
C1_AtMostOneEntryPerPrincipal ==
  (configuration.Invalidate
     /\ \A t \in Procs : call[t] = "create" => pc[t] = "done")
  => \A k1, k2 \in DOMAIN values :
       values[k1].User.Id = values[k2].User.Id => k1 = k2

\* C2: a ReadSessionCookie of a request that carries a cookie value
\* CreateSessionCookie(user) handed out returns exactly that user, when it
\* returns before the entry's Timeout and the id was neither invalidated
\* nor destroyed.
C2_SessionRoundTrip ==
  \A t \in Procs :
    (Returned(t, "read") /\ HandedOut(cookie[t])
       /\ Alive(cookie[t].Value.data) /\ cookie[t].Value.data \notin revoked)
    => result[t] = Ok(sessions[cookie[t].Value.data].User)

C2_Witness ==
  \E t \in Procs :
    /\ Returned(t, "read") /\ HandedOut(cookie[t])
    /\ Alive(cookie[t].Value.data) /\ cookie[t].Value.data \notin revoked
    /\ result[t].err = ErrNil /\ result[t].User \in UserSet

\* C3: a ReadSessionCookie entered after the session's Timeout has passed
\* returns the "expired session" error, and afterwards the store has no
\* entry for the id.
C3_ExpiredSessionReported ==
  \A t \in Procs :
    (Returned(t, "read") /\ entered[t].expired)
    => /\ result[t].err = ErrExpiredSession
       /\ sessionId[t] \notin DOMAIN values

\* C4: with Invalidate on, a ReadSessionCookie entered after a later login
\* of the same principal has returned fails for the older session; with
\* Invalidate off it returns the user as long as the older session's own
\* Timeout has not passed and it was not destroyed.
C4_SessionRenewal ==
  \A t \in Procs :
    (Returned(t, "read") /\ entered[t].superseded)
    => IF configuration.Invalidate
       THEN result[t].err # ErrNil /\ sessionId[t] \notin DOMAIN values
       ELSE (Alive(sessionId[t]) /\ sessionId[t] \notin revoked)
              => result[t] = Ok(sessions[sessionId[t]].User)

C4_Witness ==
  \E t \in Procs :
    /\ Returned(t, "read") /\ entered[t].superseded
    /\ configuration.Invalidate
    /\ result[t].err = ErrEntryNotFound

\* C4, the other half of the case: renewal is off and the older session
\* still reads.
C4_BothValid ==
  \E t \in Procs :
    /\ Returned(t, "read") /\ entered[t].superseded
    /\ ~configuration.Invalidate
    /\ result[t].err = ErrNil

\* C5 as stated: neither the step on which Manager.Get returns an entry nor
\* the one on which GetUserIfValid returns a user hands out an entry whose
\* Timeout has passed.
C5_ExpiredNeverReturned ==
  [][ \A t \in Procs :
        /\ (pc[t] = "get" /\ pc'[t] = "is_valid") => now' < entry'[t].Timeout
        /\ (pc[t] = "is_valid" /\ pc'[t] = "done" /\ result'[t].err = ErrNil)
             => now' < entry'[t].Timeout ]_vars

\* C5 amended: GetUserIfValid returns a user only while the entry's Timeout
\* has not passed at the moment of return; an entry Manager.Get returned
\* after its Timeout is answered with "expired session" and is deleted.
C5_ExpiredUserNeverReturned ==
  \A t \in Procs :
    Returned(t, "read") =>
      /\ result[t].err = ErrNil
           => now < entry[t].Timeout /\ result[t].User = entry[t].User
      /\ result[t].err = ErrExpiredSession
           => /\ entry[t].Id = sessionId[t]
              /\ entry[t].Timeout <= now
              /\ sessionId[t] \notin DOMAIN values

C5_Witness ==
  \E t \in Procs :
    /\ Returned(t, "read")
    /\ result[t].err = ErrExpiredSession
    /\ entry[t].Timeout <= now
    /\ ~entered[t].expired

\* C6: at most one goroutine is between Lock and Unlock of the MemoryStore
\* and it holds the mutex; the keys a range loop has not visited yet are as
\* they were when it locked and no key was added; and a method that has
\* returned made of the map exactly what it makes of the map it locked
\* (RecollectGarbage, which reads the clock once per key: it kept what is
\* valid at its return and dropped nothing that was valid when it locked).
C6_Inside(t) == pc[t] \in {"locked", "range"}
C6_MutuallyExclusive ==
  /\ \A t1, t2 \in Procs : (C6_Inside(t1) /\ C6_Inside(t2)) => t1 = t2
  /\ \A t \in Procs : C6_Inside(t) => mutex = t
  /\ \A t \in Procs :
       pc[t] = "range" =>
         /\ DOMAIN values \subseteq DOMAIN atLock[t].values
         /\ \A k \in DOMAIN values : values[k] = atLock[t].values[k]
         /\ todo[t] \subseteq DOMAIN values
  /\ \A t \in Procs :
       pc[t] = "done" =>
         LET m == atLock[t].values
         IN  CASE call[t] = "Save" -> values = Saved(m, entry[t])
               [] call[t] = "Delete" -> values = Deleted(m, sessionId[t])
               [] call[t] = "Invalidate" -> values = Invalidated(m, user[t].Id)
               [] call[t] = "Get" ->
                    /\ values = m
                    /\ entry[t] = Lookup(m, sessionId[t]).entry
                    /\ (result[t].err = ErrNil) = Lookup(m, sessionId[t]).ok
               [] call[t] = "RecollectGarbage" ->
                    /\ DOMAIN Collected(m, now) \subseteq DOMAIN values
                    /\ DOMAIN values \subseteq DOMAIN Collected(m, atLock[t].now)
                    /\ \A k \in DOMAIN values : values[k] = m[k]
               [] OTHER -> FALSE

\* A range loop is under way over a map with entries while the other
\* goroutine waits in Lock.
C6_Witness ==
  \E t1, t2 \in Procs :
    /\ pc[t1] = "range" /\ todo[t1] # {} /\ todo[t1] # DOMAIN atLock[t1].values
    /\ values # atLock[t1].values
    /\ pc[t2] = "lock" /\ call[t2] \in {"Save", "Delete"}

\* C7: a DestroySession that found the session id leaves no entry for it
\* and sets a cookie with the empty value that expires at once: a negative
\* MaxAge or an Expires that is set and not after the clock.
C7_DestroyExpiresCookie ==
  \A t \in Procs :
    (Returned(t, "destroy") /\ result[t].err = ErrNil)
    => /\ sessionId[t] \notin DOMAIN values
       /\ response[t].Value = EmptyValue
       /\ \/ response[t].MaxAge < 0
          \/ response[t].Expires # ZeroTime /\ response[t].Expires <= now

\* C8: the step that enters ReadSessionCookie with no session cookie, or
\* with one whose value was not sealed under the manager's key, returns on
\* that step with the missing-cookie or a decryption error, and the map of
\* the store is the same before and after.
C8_InvalidCookieTouchesNothing ==
  [][ \A t \in Procs :
        (pc[t] = "idle" /\ call'[t] = "read"
           /\ (~cookie'[t].present \/ cookie'[t].Value.key # ManagerKey))
        => /\ pc'[t] = "done"
           /\ result'[t].err \in {ErrNoCookie, ErrMalformed, ErrDecrypt}
           /\ result'[t].User = NoUser
           /\ values' = values ]_vars

C8_Witness ==
  \E t \in Procs :
    /\ Returned(t, "read")
    /\ cookie[t].present /\ cookie[t].Value = Sealed(ForeignKey, 1)
    /\ 1 \in DOMAIN values
    /\ result[t].err = ErrDecrypt

\* C9: a CreateSessionCookie that has returned made an entry whose Timeout
\* is the clock at its entry plus timeoutDuration, and set a cookie whose
\* MaxAge is timeoutDuration in seconds, with Path "/", HttpOnly and Secure
\* as configured.
C9_CookieLifetimeIsTTL ==
  \A t \in Procs :
    Returned(t, "create") =>
      /\ entry[t].Timeout = sessions[entry[t].Id].At + timeoutDuration
      /\ response[t].MaxAge = Seconds(timeoutDuration)
      /\ response[t].Path = "/"
      /\ response[t].HttpOnly
      /\ response[t].Secure = configuration.Secure

C11_NextSeesUser ==
  \A t \in Procs :
    (pc[t] = "served" /\ handled[t].next)
    => /\ result[t].err = ErrNil
       /\ HaveSession(handled[t].seen)
       /\ GetUser(handled[t].seen) = [panic |-> FALSE, user |-> result[t].User]

\* C12: when ReadSessionCookie returned an error, whichever it is, the
\* middleware of the route did not call next, returned that error, and
\* answered with a 307 redirect to the route's url when it has one and with
\* status 401 when it has none.
C12_ReadFailureRefused ==
  \A t \in Procs :
    (pc[t] = "served" /\ result[t].err # ErrNil)
    => /\ ~handled[t].next
       /\ handled[t].err = result[t].err
       /\ ctx[t] = NoValue
       /\ IF route.url # ""
          THEN /\ handled[t].status = StatusTemporaryRedirect
               /\ handled[t].location = route.url
          ELSE /\ handled[t].status = StatusUnauthorized
               /\ handled[t].location = ""

C12_Witness ==
  \E t \in Procs :
    /\ pc[t] = "served"
    /\ result[t].err = ErrExpiredSession
    /\ route.kind = "AuthorizeRoles"
    /\ route.url = LoginURL
    /\ handled[t].status = StatusTemporaryRedirect

\* ------------------------------------------------- the builder graph
\* What the registered builders say a type depends on, read off the map
\* without running anything.
TypesOf(seq) == {seq[i] : i \in 1 .. Len(seq)}
RECURSIVE ReachFrom(_, _, _)
ReachFrom(reg, frontier, seen) ==
  IF frontier \subseteq seen THEN seen
  ELSE LET new == frontier \ seen
       IN  ReachFrom(reg,
                     UNION {TypesOf(reg[t].ins) : t \in new \cap DOMAIN reg},
                     seen \cup new)
Reachable(reg, name) == ReachFrom(reg, {name}, {})
MissingFrom(reg, name) == Reachable(reg, name) \ DOMAIN reg
OnCycle(reg) ==
  {t \in DOMAIN reg : t \in ReachFrom(reg, TypesOf(reg[t].ins), {})}
Cyclic(reg, name) == Reachable(reg, name) \cap OnCycle(reg) # {}
RECURSIVE Level(_, _, _)
Level(reg, name, n) ==
  IF n = 0 THEN {name}
  ELSE UNION {TypesOf(reg[t].ins) : t \in Level(reg, name, n - 1) \cap DOMAIN reg}
DepthOf(reg, name, m) ==
  CHOOSE n \in 0 .. Cardinality(Types) :
    /\ m \in Level(reg, name, n)
    /\ \A k \in 0 .. n - 1 : m \notin Level(reg, name, k)
DeepestMissing(reg, name) ==
  {m \in MissingFrom(reg, name) :
     \A o \in MissingFrom(reg, name) :
       DepthOf(reg, name, o) <= DepthOf(reg, name, m)}

\* The depth-first, left-to-right walk from a type: the instance built and
\* the builders called on the way, or the first type met that has no
\* builder, or the re-entry of a type whose walk is under way.
RECURSIVE Walk(_, _, _)
RECURSIVE WalkInputs(_, _, _, _, _)
Walk(reg, name, path) ==
  IF name \notin DOMAIN reg
  THEN [kind |-> "missing", missing |-> name, value |-> NoInstance,
        calls |-> <<>>]
  ELSE IF name \in path
  THEN [kind |-> "cycle", missing |-> NoType, value |-> NoInstance,
        calls |-> <<>>]
  ELSE WalkInputs(reg, reg[name], path \cup {name}, <<>>, <<>>)
WalkInputs(reg, b, path, inputs, log) ==
  IF Len(inputs) = Len(b.ins)
  THEN [kind |-> "value", missing |-> NoType,
        value |-> [builder |-> b, args |-> inputs],
        calls |-> Append(log, b.out)]
  ELSE LET w == Walk(reg, b.ins[Len(inputs) + 1], path)
       IN  IF w.kind # "value"
           THEN [w EXCEPT !.calls = log \o w.calls]
           ELSE WalkInputs(reg, b, path, Append(inputs, w.value),
                           log \o w.calls)

\* How often a type occurs in the dependency tree of a type, for a graph
\* that is complete and acyclic from there.
RECURSIVE Occurrences(_, _, _)
RECURSIVE OccurrencesIn(_, _, _, _)
Occurrences(reg, name, t) ==
  (IF name = t THEN 1 ELSE 0) + OccurrencesIn(reg, reg[name].ins, 1, t)
OccurrencesIn(reg, ins, i, t) ==
  IF i > Len(ins) THEN 0
  ELSE Occurrences(reg, ins[i], t) + OccurrencesIn(reg, ins, i + 1, t)
Count(seq, t) == Cardinality({i \in 1 .. Len(seq) : seq[i] = t})

Terminated == outcome.kind \in {"value", "error", "panic", "overflow"}

\* C13 as stated: GetByType fails with the builder-not-found error exactly
\* when the type or one of its transitive dependencies has no builder, the
\* error names a deepest missing type, and it is the returned error, never
\* a panic.
C13_MissingReturnedAsError ==
  Terminated =>
    /\ (outcome.kind = "error") = (MissingFrom(builders, outcome.name) # {})
    /\ outcome.kind = "error"
         => outcome.missing \in DeepestMissing(builders, outcome.name)
    /\ outcome.kind # "panic"

\* C13 amended: GetByType returns the builder-not-found error exactly when
\* the requested type itself has no builder, and names it; CallBuilder
\* panics with that error exactly when the requested type has a builder and
\* the depth-first, left-to-right walk meets a type without builder before
\* it re-enters a type under resolution, and the panic names that first
\* type met.
C13_MissingErrorOrPanic ==
  Terminated =>
    LET w == Walk(builders, outcome.name, {})
    IN  /\ (outcome.kind = "error") = (outcome.name \notin DOMAIN builders)
        /\ outcome.kind = "error" => outcome.missing = outcome.name
        /\ (outcome.kind = "panic") =
             (outcome.name \in DOMAIN builders /\ w.kind = "missing")
        /\ outcome.kind = "panic"
             => /\ outcome.missing = w.missing
                /\ outcome.missing \in MissingFrom(builders, outcome.name)
                /\ calls = w.calls

C13_Witness ==
  /\ outcome.kind = "panic"
  /\ calls # <<>>
  /\ outcome.missing # outcome.name
  /\ builders[outcome.name].ins[1] # outcome.missing

\* C14: when the graph from the requested type is complete and acyclic,
\* GetByType returns a value; the value is the output of the builder
\* registered for the type, called with the outputs of the builders
\* registered for its parameter types, and so on down; the builders were
\* called in depth-first, left-to-right post-order; and the inputs a
\* CallBuilder under way has gathered are those of its first parameters,
\* in order.
C14_DepthFirstLeftToRight ==
  LET w == Walk(builders, outcome.name, {})
  IN  /\ (Terminated /\ w.kind = "value") => outcome.kind = "value"
      /\ outcome.kind = "value"
           => /\ outcome.value = w.value
              /\ outcome.value.builder = builders[outcome.name]
              /\ calls = w.calls
      /\ \A k \in 1 .. Len(stack) :
           /\ Len(stack[k].inputs) <= Len(stack[k].builder.ins)
           /\ \A j \in 1 .. Len(stack[k].inputs) :
                stack[k].inputs[j].builder = builders[stack[k].builder.ins[j]]

C14_Witness ==
  /\ outcome.kind = "value"
  /\ Len(outcome.value.args) = 2
  /\ outcome.value.args[1].builder.out # outcome.value.args[2].builder.out
  /\ Len(calls) >= 4

\* C15: a GetByType that returned a value called the builder of every
\* type once per occurrence of the type in the dependency tree, and a second
\* GetByType of the same type right after it called them all again.
C15_Unmemoized ==
  outcome.kind = "value" =>
    /\ Walk(builders, outcome.name, {}).kind = "value"
    /\ \A t \in Types :
         Count(calls, t) = Occurrences(builders, outcome.name, t)
    /\ earlier # <<>> => earlier = calls

C15_Witness ==
  /\ outcome.kind = "value"
  /\ earlier # <<>>
  /\ \E t \in Types : Count(calls, t) >= 2

\* C16: an Add sets the builder of its builder's output type to that
\* builder, whether or not the type had one, and leaves the builder of
\* every other type as it was; a GetByType that returns a value returns the
\* output of the builder the map holds for the type.
C16_LastAddWins ==
  [][ /\ added' # NoAdded =>
           /\ DOMAIN builders' = DOMAIN builders \cup {added'.builder.out}
           /\ builders'[added'.builder.out] = added'.builder
           /\ \A t \in DOMAIN builders \ {added'.builder.out} :
                builders'[t] = builders[t]
      /\ added' = NoAdded => builders' = builders
      /\ outcome'.kind = "value"
           => outcome'.value.builder = builders'[outcome'.name] ]_vars

C16_Witness ==
  /\ added.over
  /\ builders[added.builder.out] = added.builder
  /\ Cardinality(DOMAIN builders) >= 2

\* C17 as stated: GetByType returns a value exactly when the graph from the
\* requested type is complete and acyclic, and whenever a cycle can be
\* reached it recurses until the stack is exhausted, no builder on a cycle
\* having been called.
C17_CycleRecursesForEver ==
  Terminated =>
    /\ (outcome.kind = "value") =
         (MissingFrom(builders, outcome.name) = {}
            /\ ~Cyclic(builders, outcome.name))
    /\ Cyclic(builders, outcome.name)
         => /\ outcome.kind = "overflow"
            /\ \A i \in 1 .. Len(calls) : calls[i] \notin OnCycle(builders)

\* C17 amended: GetByType returns a value exactly when the graph from the
\* requested type is complete and acyclic; when a cycle can be reached it
\* never returns a value: it recurses until the stack is exhausted when the
\* depth-first walk re-enters a type before it meets one without builder,
\* and panics with the builder-not-found error otherwise; no builder on a
\* cycle is ever called.
C17_CycleOverflowsOrPanics ==
  /\ \A i \in 1 .. Len(calls) : calls[i] \notin OnCycle(builders)
  /\ Terminated =>
       LET w == Walk(builders, outcome.name, {})
       IN  /\ (outcome.kind = "value") =
                (MissingFrom(builders, outcome.name) = {}
                   /\ ~Cyclic(builders, outcome.name))
           /\ (outcome.kind = "overflow") = (w.kind = "cycle")
           /\ outcome.kind = "overflow" => Cyclic(builders, outcome.name)
           /\ Cyclic(builders, outcome.name)
                => outcome.kind \in {"overflow", "panic"}

C17_Witness ==
  /\ outcome.kind = "overflow"
  /\ MissingFrom(builders, outcome.name) # {}
  /\ outcome.name \notin MissingFrom(builders, outcome.name)

\* ================================================================ package csrf
CsrfKey == "key-csrf"
minimumParts == 2
MethodGet == "GET"
MethodHead == "HEAD"
MethodOptions == "OPTIONS"
MethodPost == "POST"
Methods == {MethodGet, MethodHead, MethodOptions, MethodPost}
Expirations == 0 .. MaxExpires

\* time.Time.Unix(): the whole seconds of a reading of the clock
Unix(t) == t \div TicksPerSecond
\* time.Unix(sec, 0)
UnixTime(sec) == sec * TicksPerSecond
\* time.Time.Before
BeforeOrAt(t, u) == t <= u
Before(t, u) == t < u

\* A field of a raw token is text without the delimiter: the decimal text of
\* an integer, or text that is no number.
FormatInt(i) == [digits |-> TRUE, n |-> i]
NotANumber == [digits |-> FALSE, n |-> 0]
\* core.GenerateToken: base64 text, which holds no ':'
GenerateToken == NotANumber
\* strconv.ParseInt
ParseInt(field) ==
  IF field.digits THEN [err |-> FALSE, i |-> field.n]
  ELSE [err |-> TRUE, i |-> 0]
\* fmt.Sprintf("%s%s%d", random, tokenDelimiter, unixTime): the raw token,
\* as the sequence of its fields between delimiters
Sprintf(random, unixTime) == <<random, FormatInt(unixTime)>>
\* strings.Split(raw, tokenDelimiter)
Split(raw) == raw

\* Raw tokens a client can hold sealed under the Csrf's key: what Generate
\* seals at some second, and what other users of the same cypher seal
\* (Ctx.CreateCookie seals any value it is given).
UnixSeconds == 0 .. Unix(MaxClock)
RawTokens ==
  {Sprintf(GenerateToken, sec) : sec \in UnixSeconds}
    \cup {<<GenerateToken>>, <<GenerateToken, NotANumber>>}
    \cup {<<GenerateToken, FormatInt(sec), GenerateToken>> : sec \in UnixSeconds}
\* Tokens a request can carry: none, bytes that are no ciphertext of the
\* key, and the sealed raw tokens.
Tokens ==
  {EmptyValue, Sealed(ForeignKey, Sprintf(GenerateToken, 0))}
    \cup {Sealed(CsrfKey, raw) : raw \in RawTokens}
\* Requests: of every method, the form value and the header each holding no
\* token, a token of the first second, or the token Generate returned last.
Carried(last) ==
  {EmptyValue, Sealed(CsrfKey, Sprintf(GenerateToken, 0)), last}
Requests(last) ==
  [Method : Methods, form : Carried(last), header : Carried(last)]

\* Csrf.Check at the present reading of the clock
Check(token) ==
  LET decoded == DecodeCookie(CsrfKey, token)
  IN  IF decoded.err # ErrNil THEN FALSE
      ELSE LET parts == Split(decoded.data)
           IN  IF Len(parts) < minimumParts THEN FALSE
               ELSE LET parsed == ParseInt(parts[2])
                    IN  IF parsed.err THEN FALSE
                        ELSE ~Before(UnixTime(parsed.i) + expires, instant)

\* the methods Csrf.CheckRequest asks no token of
IgnoredNever(method) == FALSE
Ignored(method) == method = MethodGet \/ method = MethodHead
\* Csrf.CheckRequest: the form value first, then the header
CheckRequest(req) ==
  IF Ignored(req.Method) THEN TRUE
  ELSE IF req.form = EmptyValue
       THEN IF req.header = EmptyValue THEN FALSE ELSE Check(req.header)
       ELSE Check(req.form)

UnchangedByCsrf ==
  UNCHANGED <<now, shared, config, locals, history, middleware, injection,
              further>>

\* New(expires, cipher), with every duration up to MaxExpires
InitForgery ==
  /\ InitSession({m \in DefaultManagers : m.duration = OneDayDuration},
                 [expires |-> {ZeroTime}, randFails |-> FALSE])
  /\ route = NoRoute
  /\ InitRequests
  /\ InitInjector
  /\ InitCsrf(Expirations)
  /\ InitFurther

\* time passes
ClockTick ==
  /\ instant < MaxClock
  /\ instant' = instant + 1
  /\ verdict' = NoVerdict
  /\ forwarded' = NotForwarded
  /\ UNCHANGED <<expires, issued, generated>>
  /\ UnchangedByCsrf

\* What Csrf.Generate returns: "" when the cypher fails
Generated ==
  LET unixTime == Unix(instant)
      random == GenerateToken
      e == EncodeCookie(CsrfKey, Sprintf(random, unixTime),
                        ~environment.randFails)
  IN  IF e.err = ErrNil THEN e.value ELSE EmptyValue

\* Csrf.Generate
Generate ==
  /\ issued' = [at |-> instant, token |-> Generated, made |-> TRUE]
  /\ generated' = generated \cup {Generated}
  /\ verdict' = NoVerdict
  /\ forwarded' = NotForwarded
  /\ UNCHANGED <<instant, expires>>
  /\ UnchangedByCsrf

\* What Check answers for a token now
Answer(op, token, req) ==
  [op |-> op, token |-> token, request |-> req, ok |-> Check(token)]

\* Csrf.Check of a token: the one Generate returned last, or another
CheckToken(token) ==
  /\ verdict' = Answer("Check", token, NoRequest)
  /\ forwarded' = NotForwarded
  /\ UNCHANGED <<instant, expires, issued, generated>>
  /\ UnchangedByCsrf

\* the token Csrf.CheckRequest hands to Check: the form value, or the header
Presented(req) == IF req.form = EmptyValue THEN req.header ELSE req.form
\* what CheckRequest answers, and the token it handed to Check, if any
CheckRequestAnswer(req) ==
  IF Ignored(req.Method)
  THEN [op |-> "CheckRequest", token |-> EmptyValue, request |-> req,
        ok |-> TRUE]
  ELSE [Answer("CheckRequest", Presented(req), req)
          EXCEPT !.ok = CheckRequest(req)]

\* Csrf.CheckRequest of a request
CheckRequestOf(req) ==
  /\ verdict' = CheckRequestAnswer(req)
  /\ forwarded' = NotForwarded
  /\ UNCHANGED <<instant, expires, issued, generated>>
  /\ UnchangedByCsrf

\* middleware.Csrf: GET and OPTIONS go to next unchecked; the others go to
\* next when CheckRequest accepts them and get StatusForbidden when not;
\* next finds a token just generated under csrf.ContextKey.
StatusForbidden == 403
SkippedAlways(method) == TRUE
Skipped(method) == method = MethodGet \/ method = MethodOptions
Csrf(req) ==
  LET checked == ~Skipped(req.Method)
      passes == Skipped(req.Method) \/ CheckRequest(req)
  IN  /\ verdict' = IF checked THEN CheckRequestAnswer(req) ELSE NoVerdict
      /\ IF passes
         THEN /\ issued' = [at |-> instant, token |-> Generated, made |-> TRUE]
              /\ generated' = generated \cup {Generated}
              /\ forwarded' = [op |-> "Csrf", request |-> req, next |-> TRUE,
                               status |-> 0,
                               value |-> [present |-> TRUE, token |-> Generated]]
         ELSE /\ forwarded' = [NotForwarded EXCEPT !.op = "Csrf",
                                                   !.request = req,
                                                   !.status = StatusForbidden]
              /\ UNCHANGED <<issued, generated>>
      /\ UNCHANGED <<instant, expires>>
      /\ UnchangedByCsrf

NextForgery ==
  \/ ClockTick
  \/ Generate
  \/ \E token \in Tokens : CheckToken(token)
  \/ \E req \in Requests(issued.token) : CheckRequestOf(req)
  \/ \E req \in Requests(issued.token) : Csrf(req)

SpecForgery == InitForgery /\ [][NextForgery]_vars

\* The last reading of the clock at which Check accepts a token stamped
\* with the whole seconds of the reading at.
ExpirationTime(at) == UnixTime(Unix(at)) + expires

\* C18 as stated: Check accepts the token Generate returned last at the
\* moment it was returned and at every time up to the token's timestamp
\* plus Csrf.expires, and rejects it at every later time.
C18_FreshFromGenerate ==
  (verdict.op = "Check" /\ issued.made /\ verdict.token = issued.token) =>
    /\ instant = issued.at => verdict.ok
    /\ instant <= ExpirationTime(issued.at) => verdict.ok
    /\ instant > ExpirationTime(issued.at) => ~verdict.ok

\* C18 amended: Check accepts the token Generate returned last exactly at
\* the times up to the token's timestamp plus Csrf.expires, the timestamp
\* being the whole seconds of the moment Generate read the clock; it is
\* accepted at the moment it was returned when Csrf.expires is at least a
\* second.
C18_FreshUpToExpiration ==
  (verdict.op = "Check" /\ issued.made /\ verdict.token = issued.token) =>
    /\ verdict.ok = (instant <= ExpirationTime(issued.at))
    /\ (instant = issued.at /\ expires >= TicksPerSecond) => verdict.ok
    /\ (instant = issued.at /\ ~verdict.ok) => expires < instant - UnixTime(Unix(instant))

C18_Witness ==
  /\ verdict.op = "Check"
  /\ issued.made
  /\ verdict.token = issued.token
  /\ instant > issued.at
  /\ instant = ExpirationTime(issued.at)
  /\ verdict.ok

\* C19 as stated: Check accepts a token only if it decrypts, its raw text
\* splits into exactly two fields, the second field parses as an integer,
\* and the time of that integer plus Csrf.expires is after the present.
C19_ValidOnlyIfExactlyTwoFields ==
  (verdict.op = "Check" /\ verdict.ok) =>
    LET decoded == DecodeCookie(CsrfKey, verdict.token)
    IN  /\ decoded.err = ErrNil
        /\ Len(Split(decoded.data)) = minimumParts
        /\ ~ParseInt(Split(decoded.data)[2]).err
        /\ UnixTime(ParseInt(Split(decoded.data)[2]).i) + expires > instant

\* C20 as stated: CheckRequest answers valid for every GET, HEAD and
\* OPTIONS request, token or not, and invalid for a request of another
\* method with neither form value nor header.
C20_BypassGetHeadOptions ==
  verdict.op = "CheckRequest" =>
    /\ verdict.request.Method \in {MethodGet, MethodHead, MethodOptions}
         => verdict.ok
    /\ (verdict.request.Method \notin {MethodGet, MethodHead, MethodOptions}
          /\ verdict.request.form = EmptyValue
          /\ verdict.request.header = EmptyValue) => ~verdict.ok

\* C20 amended: CheckRequest answers valid for every GET and HEAD request,
\* token or not; for every other method, OPTIONS among them, it answers
\* invalid when neither the form value nor the header holds a token, and
\* otherwise what Check answers for the form value if there is one, for the
\* header if not.
C20_BypassGetHead ==
  verdict.op = "CheckRequest" =>
    LET req == verdict.request
    IN  /\ req.Method \in {MethodGet, MethodHead} => verdict.ok
        /\ (req.Method \notin {MethodGet, MethodHead}
              /\ req.form = EmptyValue /\ req.header = EmptyValue)
             => ~verdict.ok
        /\ (req.Method \notin {MethodGet, MethodHead}
              /\ req.form # EmptyValue) => verdict.ok = Check(req.form)
        /\ (req.Method \notin {MethodGet, MethodHead}
              /\ req.form = EmptyValue /\ req.header # EmptyValue)
             => verdict.ok = Check(req.header)

C20_Witness ==
  /\ verdict.op = "CheckRequest"
  /\ verdict.request.Method = MethodOptions
  /\ verdict.request.form = EmptyValue
  /\ verdict.request.header = EmptyValue
  /\ ~verdict.ok

\* C21 as stated: a token that Check or CheckRequest has accepted is
\* rejected when the next call of Check or CheckRequest is given it again,
\* also before its expiration time.
C21_TokenAcceptedOnce ==
  [][ (verdict.op # "none" /\ verdict.ok /\ verdict.token # EmptyValue
         /\ verdict'.op # "none" /\ verdict'.token = verdict.token)
        => ~verdict'.ok ]_vars

\* C22: middleware.Csrf answers a request that is neither GET, HEAD nor
\* OPTIONS and whose token Check rejects, or that has no token, with
\* StatusForbidden and does not call next; it calls next for every other
\* request, and then the context holds the token a Generate of this very
\* request returned.
C22_ForbiddenOrFreshToken ==
  forwarded.op = "Csrf" =>
    LET req == forwarded.request
        safe == req.Method \in {MethodGet, MethodHead, MethodOptions}
    IN  /\ (~safe /\ ~Check(Presented(req)))
             => forwarded.status = StatusForbidden /\ ~forwarded.next
        /\ forwarded.next = (safe \/ Check(Presented(req)))
        /\ ~forwarded.next
             => forwarded.status = StatusForbidden /\ ~forwarded.value.present
        /\ forwarded.next
             => /\ forwarded.value.present
                /\ forwarded.value.token = issued.token
                /\ issued.made /\ issued.at = instant
                /\ forwarded.value.token \in generated
                /\ forwarded.value.token = Generated

C22_Witness ==
  /\ forwarded.op = "Csrf"
  /\ forwarded.request.Method = MethodPost
  /\ forwarded.next
  /\ forwarded.value.present
  /\ forwarded.value.token # Presented(forwarded.request)

C22_WitnessForbidden ==
  /\ forwarded.op = "Csrf"
  /\ forwarded.request.Method = MethodPost
  /\ Presented(forwarded.request) # EmptyValue
  /\ forwarded.status = StatusForbidden

\* C28 as stated: every token Check accepts is one that Generate returned.
C28_AcceptedWereGenerated ==
  (verdict.op = "Check" /\ verdict.ok) => verdict.token \in generated

\* The entries of before that the map still holds are as they were.
KeptAsBefore(before) ==
  \A k \in DOMAIN values \cap DOMAIN before : values[k] = before[k]

\* C25: a MemoryStore method that has returned found the map m when it
\* locked.  Save left m with its entry under the entry's id, whether or not
\* m had the id, and nothing else changed.  Get left m as it was, failed
\* with the not-found error exactly when m had no entry for the id, and
\* otherwise returned the entry of m, whatever its Timeout.  Delete left m
\* without the id and otherwise unchanged, so unchanged when m had no entry
\* for the id, and reported no error.
C25_StoreIsMapById ==
  \A t \in Procs :
    pc[t] = "done" =>
      LET m == atLock[t].values
      IN  /\ call[t] = "Save"
               => /\ DOMAIN values = DOMAIN m \cup {entry[t].Id}
                  /\ values[entry[t].Id] = entry[t]
                  /\ \A k \in DOMAIN m \ {entry[t].Id} : values[k] = m[k]
          /\ call[t] = "Get"
               => /\ values = m
                  /\ (result[t].err = ErrEntryNotFound)
                       = (sessionId[t] \notin DOMAIN m)
                  /\ sessionId[t] \in DOMAIN m
                       => result[t].err = ErrNil /\ entry[t] = m[sessionId[t]]
          /\ call[t] = "Delete"
               => /\ DOMAIN values = DOMAIN m \ {sessionId[t]}
                  /\ KeptAsBefore(m)
                  /\ sessionId[t] \notin DOMAIN m => values = m
                  /\ result[t].err = ErrNil

\* Get returned an entry whose Timeout has passed.
C25_Witness ==
  \E t \in Procs :
    /\ pc[t] = "done" /\ call[t] = "Get"
    /\ result[t].err = ErrNil
    /\ entry[t].Timeout <= now
    /\ entry[t].User.Id # entry[t].Id

C25_WitnessDeleteAbsent ==
  \E t \in Procs :
    /\ pc[t] = "done" /\ call[t] = "Delete"
    /\ sessionId[t] \notin DOMAIN atLock[t].values
    /\ values # EmptyMap

\* C26: an Invalidate that has returned removed from the map it locked
\* exactly the entries of the user id it was given and left the others as
\* they were; a RecollectGarbage that has returned removed every entry whose
\* Timeout was not after the clock when it locked, removed no entry whose
\* Timeout is after the clock at its return, and left what it kept as it
\* was.
C26_RemovesExactly ==
  \A t \in Procs :
    pc[t] = "done" =>
      LET m == atLock[t].values
      IN  /\ call[t] = "Invalidate"
               => /\ DOMAIN values
                       = {k \in DOMAIN m : m[k].User.Id # user[t].Id}
                  /\ KeptAsBefore(m)
          /\ call[t] = "RecollectGarbage"
               => /\ DOMAIN values \subseteq DOMAIN m
                  /\ KeptAsBefore(m)
                  /\ \A k \in DOMAIN m :
                       /\ m[k].Timeout <= atLock[t].now => k \notin DOMAIN values
                       /\ m[k].Timeout > now => k \in DOMAIN values

\* Invalidate removed an entry and kept one of another principal.
C26_Witness ==
  \E t \in Procs :
    /\ pc[t] = "done" /\ call[t] = "Invalidate"
    /\ values # atLock[t].values
    /\ values # EmptyMap

C26_WitnessCollected ==
  \E t \in Procs :
    /\ pc[t] = "done" /\ call[t] = "RecollectGarbage"
    /\ values # atLock[t].values
    /\ values # EmptyMap

\* C27 as stated: when ReadSessionCookie returned a user to the Admin
\* middleware, next is called exactly when the user's roles hold RoleAdmin;
\* a user without it gets the redirect to the route's url, or status 401
\* when the route has none.
C27_OnlyAdminsPass ==
  \A t \in Procs :
    (pc[t] = "served" /\ route.kind = "Admin" /\ result[t].err = ErrNil)
    => /\ handled[t].next = Contains(result[t].User.Roles, RoleAdmin)
       /\ ~Contains(result[t].User.Roles, RoleAdmin)
            => /\ handled[t].status = handleError(route.url).status
               /\ handled[t].location = handleError(route.url).location

\* ------------------------------------------- the random source can fail
\* The Manager of NewManagerWithDefaults with the short timeoutDuration,
\* over a cypher whose io.ReadFull(rand.Reader, nonce) may return an error.
InitEncryptFails ==
  InitWith({m \in DefaultManagers : m.duration = MaxTTL},
           [expires |-> {ZeroTime}, randFails |-> TRUE])

SpecEncryptFails == InitEncryptFails /\ [][Next]_vars

\* C29 as stated: a CreateSessionCookie whose EncodeCookie failed has
\* returned with no entry for the new session id in the store, with the
\* principal's sessions of before the call still stored, and with no
\* cookie written to the response.
C29_CreateIsAllOrNothing ==
  \A t \in Procs :
    (Returned(t, "create") /\ response[t].Value = EmptyValue)
    => /\ entry[t].Id \notin DOMAIN values
       /\ prior[t] \subseteq DOMAIN values
       /\ response[t] = NoSetCookie

\* ------------------------------------------------------------ the Mux
\* A []Middleware is a slice header over a backing array; two headers over
\* one array see each other's writes, so the arrays are kept apart from
\* the headers.  A Middleware is known by the call that brought it: the
\* n-th Use, or the i-th place of a Handle's list.  A Handler is written as
\* what runs when it is called, outermost first.
MaxUses == 5         \* calls of Use, on whatever mux, in one run
MaxMuxes == 2        \* the Mux of New and the sub-muxes made from it

NilMiddleware == <<"nil", 0>>
Used(n) == <<"Use", n>>
Listed(i) == <<"Handle", i>>
TheHandler == <<"handler", 0>>
\* the middlewares ...Middleware lists a Handle may be called with
RouteMiddlewares == {<<>>, <<Listed(1), Listed(2)>>}

\* what a slice header shows of the arrays
Elements(mem, s) == [i \in 1..s.len |-> mem[s.array][i]]
MiddlewaresOf(x) == Elements(arrays, muxes[x].middlewares)

\* the capacities the allocator has for arrays of func values: the size
\* classes 8, 16, 24, 32, 48, 64, ... bytes of eight-byte elements
Capacities == {1, 2, 3, 4, 6, 8, 10, 12, 14, 16}
RoundedUp(n) == CHOOSE c \in Capacities :
                  c >= n /\ \A d \in Capacities : d >= n => c <= d
Cells(elems, c) == [i \in 1..c |-> IF i <= Len(elems) THEN elems[i]
                                                     ELSE NilMiddleware]

\* append(s, m): in place when the array has room, else into a new array
\* of twice the capacity
AppendTo(mem, s, m) ==
  IF s.len < s.cap
    THEN [mem |-> [mem EXCEPT ![s.array][s.len + 1] = m],
          slice |-> [s EXCEPT !.len = s.len + 1]]
    ELSE LET c == RoundedUp(IF s.cap = 0 THEN 1 ELSE 2 * s.cap)
         IN [mem |-> Append(mem, Cells(Append(Elements(mem, s), m), c)),
             slice |-> [array |-> Len(mem) + 1, len |-> s.len + 1, cap |-> c]]

\* the same header: what CreateSubMux would hand on without slices.Clone
Shared(mem, s) == [mem |-> mem, slice |-> s]
\* slices.Clone: nil for nil, else the elements in an array of their own
Clone(mem, s) ==
  IF s = NilSlice
    THEN [mem |-> mem, slice |-> NilSlice]
    ELSE LET c == RoundedUp(s.len)
         IN [mem |-> Append(mem, Cells(Elements(mem, s), c)),
             slice |-> [array |-> Len(mem) + 1, len |-> s.len, cap |-> c]]

\* m(handler): m runs first and calls next
Wrap(m, handler) == <<m>> \o handler
\* for _, m := range ms { handler = m(handler) }
RECURSIVE Wrapped(_, _, _)
Wrapped(ms, i, handler) ==
  IF i > Len(ms) THEN handler
                 ELSE Wrapped(ms, i + 1, Wrap(ms[i], handler))

\* how many Use calls there have been: every one wrote its cell
UsesSoFar ==
  Cardinality({n \in 1..MaxUses :
                 \E a \in 1..Len(arrays) : \E i \in 1..Len(arrays[a]) :
                   arrays[a][i] = Used(n)})

UnchangedByMux ==
  UNCHANGED <<now, shared, config, locals, history, middleware, injection,
              forgery, sealing>>

\* mux.Use(middleware)
Use(x) ==
  /\ UsesSoFar < MaxUses
  /\ LET r == AppendTo(arrays, muxes[x].middlewares, Used(UsesSoFar + 1))
     IN /\ arrays' = r.mem
        /\ muxes' = [muxes EXCEPT ![x].middlewares = r.slice]
  /\ UNCHANGED <<routes, served>>
  /\ UnchangedByMux

\* mux.CreateSubMux(prefix)
CreateSubMux(x) ==
  /\ Len(muxes) < MaxMuxes
  /\ LET r == Clone(arrays, muxes[x].middlewares)
     IN /\ arrays' = r.mem
        /\ muxes' = Append(muxes, [parent |-> x, middlewares |-> r.slice])
  /\ UNCHANGED <<routes, served>>
  /\ UnchangedByMux

\* mux.Handle(method, pattern, handler, middlewares...).  What it hands to
\* the router depends on no other route, so one registration is followed:
\* that of the route the requests are for.
Handle(x, ms) ==
  /\ routes = <<>>
  /\ routes' = Append(routes,
       [mux |-> x, middlewares |-> ms, globals |-> MiddlewaresOf(x),
        handler |-> Wrapped(MiddlewaresOf(x), 1,
                            Wrapped(ms, 1, <<TheHandler>>))])
  /\ UNCHANGED <<arrays, muxes, served>>
  /\ UnchangedByMux

\* the router calls what was registered for the request's route; every
\* middleware calls next
ServeHTTP(r) ==
  /\ served' = [route |-> r, ran |-> routes[r].handler]
  /\ served' # served
  /\ UNCHANGED <<arrays, muxes, routes>>
  /\ UnchangedByMux

InitRouting ==
  InitWith({m \in DefaultManagers : m.duration = OneDayDuration},
           [expires |-> {ZeroTime}, randFails |-> FALSE])

NextMux ==
  \/ \E x \in 1..Len(muxes) : Use(x)
  \/ \E x \in 1..Len(muxes) : CreateSubMux(x)
  \/ \E x \in 1..Len(muxes) : \E ms \in RouteMiddlewares : Handle(x, ms)
  \/ \E r \in 1..Len(routes) : ServeHTTP(r)

SpecMux == InitRouting /\ [][NextMux]_vars

\* the mux and the muxes it was made from
RECURSIVE Ancestors(_)
Ancestors(x) ==
  IF muxes[x].parent = 0 THEN {}
                         ELSE {muxes[x].parent} \cup Ancestors(muxes[x].parent)

Reversed(ms) == [i \in 1..Len(ms) |-> ms[Len(ms) + 1 - i]]
\* the order the claim gives a route: the global middlewares of its mux
\* at registration, last added first, then its own, last listed first,
\* then the handler
InOrder(r) == Reversed(r.globals) \o Reversed(r.middlewares) \o <<TheHandler>>

\* C30: a request runs the global middlewares the route's mux had at
\* registration, last added outermost, then the route's own, last listed
\* outermost, then the handler; no later step changes what a registered
\* route runs; and a step that changes a mux's middleware list leaves the
\* lists of the muxes it was made from as they were.
C30_ChainOrderAndScope ==
  [][ /\ \A r \in 1..Len(routes') : routes'[r].handler = InOrder(routes'[r])
      /\ served'.route # 0 => served'.ran = InOrder(routes'[served'.route])
      /\ \A r \in 1..Len(routes) : routes'[r] = routes[r]
      /\ \A x \in 1..Len(muxes) :
           MiddlewaresOf(x)' # MiddlewaresOf(x)
             => \A y \in Ancestors(x) : MiddlewaresOf(y)' = MiddlewaresOf(y) ]_vars

\* a request was served on a route of a sub-mux registered with two
\* middlewares of its own under two global ones, after which both the
\* sub-mux and its parent were given another middleware
C30_Witness ==
  /\ served.route # 0
  /\ LET r == routes[served.route]
     IN /\ muxes[r.mux].parent # 0
        /\ Len(r.middlewares) = 2
        /\ Len(r.globals) = 2
        /\ Len(MiddlewaresOf(r.mux)) > 2
        /\ Len(MiddlewaresOf(muxes[r.mux].parent)) > 2
        /\ served.ran = <<Used(2), Used(1), Listed(2), Listed(1), TheHandler>>

\* ------------------------------------------------------- package cypher
\* AES256 over byte strings.  AES-GCM itself is not computed: Seal is a
\* counter-mode cipher (the data xor a keystream fixed by key and nonce)
\* followed by a keyed tag over nonce and ciphertext, which is what GCM
\* is; the tag is taken to be unforgeable, in that over the inputs below
\* two different (key, nonce, ciphertext) never have one tag.
MaxCyphers == 2      \* Cypher values made by New, each with its own password
MaxLen == 2          \* the longest payload, in bytes
NonceSize == 12
TagSize == 16
TagHead == 4

Cyphers == 1 .. MaxCyphers
\* the byte values payloads are made of
ByteSamples == {0, 255}
\* what rand.Reader may put in the last byte of a nonce
Draws == {7, 200}
Payloads == UNION {[1..n -> ByteSamples] : n \in 0..MaxLen}

Bit(v, b) == (v \div 2^b) % 2
FlipBit(v, b) == IF Bit(v, b) = 1 THEN v - 2^b ELSE v + 2^b
Or(a, b) ==
  LET d(i) == (IF Bit(a, i) + Bit(b, i) > 0 THEN 1 ELSE 0) * 2^i
  IN d(0) + d(1) + d(2) + d(3) + d(4) + d(5) + d(6) + d(7)
Xor(a, b) ==
  LET d(i) == ((Bit(a, i) + Bit(b, i)) % 2) * 2^i
  IN d(0) + d(1) + d(2) + d(3) + d(4) + d(5) + d(6) + d(7)

RECURSIVE SumOf(_)
SumOf(bs) == IF bs = <<>> THEN 0 ELSE Head(bs) + SumOf(Tail(bs))
RECURSIVE WeighedSumOf(_)
WeighedSumOf(bs) ==
  IF bs = <<>> THEN 0 ELSE Len(bs) * bs[Len(bs)] + WeighedSumOf(SubSeq(bs, 1, Len(bs) - 1))

\* make([]byte, NonceSize) filled by rand.Reader
Nonce(draw) == [i \in 1..NonceSize |-> IF i = NonceSize THEN draw ELSE 0]

Keystream(k, nonce, i) == (k * 41 + SumOf(nonce) * 3 + i * 7) % 256
Crypt(k, nonce, bs) == [i \in 1..Len(bs) |-> Xor(bs[i], Keystream(k, nonce, i))]
\* the tag: a hash of nonce and ciphertext, every byte of it masked by
\* the key
Hash(nonce, ct, j) ==
  IF j = 1 THEN Len(ct)
  ELSE IF j = 2 THEN SumOf(nonce)
  ELSE IF j = 3 THEN WeighedSumOf(nonce)
  ELSE IF j = 4 THEN SumOf(ct)
  ELSE SumOf([i \in 1..Len(ct) |->
                IF i % (TagSize - TagHead) = (j - TagHead) % (TagSize - TagHead)
                  THEN ct[i] ELSE 0])
Mask(k, nonce, j) == k * (2 * j + 1) + SumOf(nonce)
Tag(k, nonce, ct) ==
  [j \in 1..TagSize |-> (Hash(nonce, ct, j) + Mask(k, nonce, j)) % 256]

\* cipher.Seal(dst, nonce, plaintext, nil): dst, the ciphertext, the tag
Seal(k, dst, nonce, plaintext) ==
  LET ct == Crypt(k, nonce, plaintext) IN dst \o ct \o Tag(k, nonce, ct)

\* the tag check of cipher.Open
VerifiedAlways(k, nonce, ct, tag) == TRUE
Verified(k, nonce, ct, tag) == tag = Tag(k, nonce, ct)

\* cipher.Open(nil, nonce, ciphertext, nil)
Open(k, nonce, ciphertext) ==
  IF Len(ciphertext) < TagSize
    THEN [err |-> ErrDecrypt, plain |-> <<>>]
    ELSE LET ct == SubSeq(ciphertext, 1, Len(ciphertext) - TagSize)
             tag == SubSeq(ciphertext, Len(ciphertext) - TagSize + 1,
                           Len(ciphertext))
         IN IF Verified(k, nonce, ct, tag)
              THEN [err |-> ErrNil, plain |-> Crypt(k, nonce, ct)]
              ELSE [err |-> ErrDecrypt, plain |-> <<>>]

\* AES256.Encrypt, the nonce read
Encrypt(k, bs, nonce) == Seal(k, nonce, nonce, bs)

\* AES256.Decrypt
Decrypt(k, bs) ==
  IF Len(bs) < NonceSize
    THEN [err |-> ErrMalformed, plain |-> <<>>]
    ELSE Open(k, SubSeq(bs, 1, NonceSize), SubSeq(bs, NonceSize + 1, Len(bs)))

\* base64.RawURLEncoding: the URL-safe alphabet, no padding
Alphabet == <<
  "A", "B", "C", "D", "E", "F", "G", "H", "I", "J", "K", "L", "M",
  "N", "O", "P", "Q", "R", "S", "T", "U", "V", "W", "X", "Y", "Z",
  "a", "b", "c", "d", "e", "f", "g", "h", "i", "j", "k", "l", "m",
  "n", "o", "p", "q", "r", "s", "t", "u", "v", "w", "x", "y", "z",
  "0", "1", "2", "3", "4", "5", "6", "7", "8", "9", "-", "_" >>
ErrCorruptInput == "illegal base64 data"
Digit(c) == CHOOSE d \in 0..63 : Alphabet[d + 1] = c
Letters(v, n) == [i \in 1..n |-> Alphabet[((v \div 64^(n - i)) % 64) + 1]]
Octets(v, n) == [i \in 1..n |-> (v \div 256^(n - i)) % 256]
Numeral(ds, base) ==
  LET RECURSIVE From(_, _)
      From(i, acc) == IF i > Len(ds) THEN acc ELSE From(i + 1, acc * base + ds[i])
  IN From(1, 0)

\* three bytes make four letters; a last one or two make two or three
RECURSIVE EncodeToString(_)
EncodeToString(bs) ==
  IF Len(bs) = 0 THEN <<>>
  ELSE IF Len(bs) = 1 THEN Letters(Numeral(bs, 256) * 16, 2)
  ELSE IF Len(bs) = 2 THEN Letters(Numeral(bs, 256) * 4, 3)
  ELSE Letters(Numeral(SubSeq(bs, 1, 3), 256), 4)
         \o EncodeToString(SubSeq(bs, 4, Len(bs)))

\* four letters make three bytes; a last two or three make one or two,
\* their spare bits dropped; a last one alone is an error
RECURSIVE Decoded(_)
Decoded(ds) ==
  IF Len(ds) = 0 THEN <<>>
  ELSE IF Len(ds) = 2 THEN Octets(Numeral(ds, 64) \div 16, 1)
  ELSE IF Len(ds) = 3 THEN Octets(Numeral(ds, 64) \div 4, 2)
  ELSE Octets(Numeral(SubSeq(ds, 1, 4), 64), 3) \o Decoded(SubSeq(ds, 5, Len(ds)))
DecodeString(cs) ==
  IF \/ \E i \in 1..Len(cs) : \A d \in 1..64 : Alphabet[d] # cs[i]
     \/ Len(cs) % 4 = 1
    THEN [err |-> ErrCorruptInput, bytes |-> <<>>]
    ELSE [err |-> ErrNil, bytes |-> Decoded([i \in 1..Len(cs) |-> Digit(cs[i])])]

\* cypher.DecodeCookie over bytes
DecodeCookieText(k, cs) ==
  LET b == DecodeString(cs)
  IN IF b.err # ErrNil THEN [err |-> b.err, plain |-> <<>>]
                       ELSE Decrypt(k, b.bytes)

UnchangedByCypher ==
  UNCHANGED <<now, shared, config, locals, history, middleware, injection,
              forgery, routing>>

\* aes.Encrypt(data): the random source fills the nonce, or fails.  The
\* Cypher keeps nothing between calls, so one value is followed in a run.
CallEncrypt(k, bs) ==
  /\ blob = NoBlob
  /\ \/ \E draw \in Draws :
          blob' = [op |-> "Encrypt", key |-> k, plain |-> bs, err |-> ErrNil,
                   bytes |-> Encrypt(k, bs, Nonce(draw)), text |-> <<>>,
                   whole |-> TRUE]
     \/ blob' = [op |-> "Encrypt", key |-> k, plain |-> bs, err |-> ErrEncrypt,
                 bytes |-> <<>>, text |-> <<>>, whole |-> TRUE]
  /\ opened' = NotOpened
  /\ UnchangedByCypher

\* cypher.EncodeCookie(cypher, data)
CallEncodeCookie(k, bs) ==
  /\ blob = NoBlob
  /\ \/ \E draw \in Draws :
          blob' = [op |-> "EncodeCookie", key |-> k, plain |-> bs,
                   err |-> ErrNil, bytes |-> <<>>,
                   text |-> EncodeToString(Encrypt(k, bs, Nonce(draw))),
                   whole |-> TRUE]
     \/ blob' = [op |-> "EncodeCookie", key |-> k, plain |-> bs,
                 err |-> ErrEncrypt, bytes |-> <<>>, text |-> <<>>,
                 whole |-> TRUE]
  /\ opened' = NotOpened
  /\ UnchangedByCypher

\* one bit of what Encrypt returned is flipped on its way
Flip(i, b) ==
  /\ blob.op = "Encrypt" /\ blob.whole /\ opened = NotOpened
  /\ i \in 1..Len(blob.bytes)
  /\ blob' = [blob EXCEPT !.bytes[i] = FlipBit(@, b), !.whole = FALSE]
  /\ UNCHANGED opened
  /\ UnchangedByCypher

\* only the first n bytes of what Encrypt returned arrive
Cut(n) ==
  /\ blob.op = "Encrypt" /\ blob.whole /\ opened = NotOpened
  /\ n < Len(blob.bytes)
  /\ blob' = [blob EXCEPT !.bytes = SubSeq(@, 1, n), !.whole = FALSE]
  /\ UNCHANGED opened
  /\ UnchangedByCypher

\* the cookie comes back with its last letters lost, or with one letter
\* that is not of the alphabet
Garble(n, c) ==
  /\ blob.op = "EncodeCookie" /\ blob.whole /\ opened = NotOpened
  /\ n \in 1..Len(blob.text)
  /\ \/ blob' = [blob EXCEPT !.text = SubSeq(@, 1, n - 1), !.whole = FALSE]
     \/ blob' = [blob EXCEPT !.text[n] = c, !.whole = FALSE]
  /\ UNCHANGED opened
  /\ UnchangedByCypher

\* aes.Decrypt(data), by whichever Cypher
CallDecrypt(k) ==
  /\ blob.op = "Encrypt" /\ opened = NotOpened
  /\ LET d == Decrypt(k, blob.bytes)
     IN opened' = [op |-> "Decrypt", key |-> k, given |-> blob,
                   err |-> d.err, plain |-> d.plain]
  /\ UNCHANGED blob
  /\ UnchangedByCypher

\* cypher.DecodeCookie(cypher, data)
CallDecodeCookie(k) ==
  /\ blob.op = "EncodeCookie" /\ opened = NotOpened
  /\ LET d == DecodeCookieText(k, blob.text)
     IN opened' = [op |-> "DecodeCookie", key |-> k, given |-> blob,
                   err |-> d.err, plain |-> d.plain]
  /\ UNCHANGED blob
  /\ UnchangedByCypher

InitSealing ==
  InitWith({m \in DefaultManagers : m.duration = OneDayDuration},
           [expires |-> {ZeroTime}, randFails |-> FALSE])

NextCypher ==
  \/ \E k \in Cyphers : \E bs \in Payloads : CallEncrypt(k, bs)
  \/ \E k \in Cyphers : \E bs \in Payloads : CallEncodeCookie(k, bs)
  \/ \E i \in 1..(NonceSize + MaxLen + TagSize) : \E b \in 0..7 : Flip(i, b)
  \/ \E n \in 0..(NonceSize + MaxLen + TagSize) : Cut(n)
  \/ \E n \in 1..(2 * (NonceSize + MaxLen + TagSize)) : Garble(n, "=")
  \/ \E k \in Cyphers : CallDecrypt(k)
  \/ \E k \in Cyphers : CallDecodeCookie(k)

SpecCypher == InitSealing /\ [][NextCypher]_vars

\* C23: what Encrypt returned, given whole to Decrypt of the same Cypher,
\* comes back as the payload, the empty one included; and what
\* EncodeCookie returned, given whole to DecodeCookie of the same Cypher,
\* comes back as the string.
C23_RoundTrip ==
  (/\ opened.op # "none"
   /\ opened.given.err = ErrNil /\ opened.given.whole
   /\ opened.key = opened.given.key)
    => (opened.err = ErrNil /\ opened.plain = opened.given.plain)

\* the empty payload went through Encrypt and Decrypt of one Cypher
C23_Witness ==
  /\ opened.op = "Decrypt" /\ opened.given.err = ErrNil /\ opened.given.whole
  /\ opened.key = opened.given.key
  /\ opened.given.plain = <<>> /\ opened.plain = <<>> /\ opened.err = ErrNil

\* a string of MaxLen bytes went through EncodeCookie and DecodeCookie
C23_WitnessCookie ==
  /\ opened.op = "DecodeCookie" /\ opened.given.err = ErrNil
  /\ opened.given.whole /\ opened.key = opened.given.key
  /\ Len(opened.given.plain) = MaxLen /\ opened.plain = opened.given.plain

\* C24: Decrypt answers the malformed-data error for fewer bytes than a
\* nonce, the cannot-decrypt error for bytes of nonce size or more that
\* were changed after Encrypt or were encrypted by a Cypher with another
\* key, and a plaintext only for what Encrypt of the same Cypher returned,
\* unchanged.
C24_DecryptOnlyOwnOutput ==
  opened.op = "Decrypt" =>
    /\ Len(opened.given.bytes) < NonceSize => opened.err = ErrMalformed
    /\ (/\ Len(opened.given.bytes) >= NonceSize
        /\ (~opened.given.whole \/ opened.given.key # opened.key))
         => opened.err = ErrDecrypt
    /\ opened.err = ErrNil
         => /\ opened.given.err = ErrNil /\ opened.given.whole
            /\ opened.given.key = opened.key
    /\ opened.err # ErrNil => opened.plain = <<>>

\* Decrypt refused bytes with one bit flipped in the ciphertext proper
C24_Witness ==
  /\ opened.op = "Decrypt" /\ ~opened.given.whole
  /\ opened.given.key = opened.key
  /\ Len(opened.given.bytes) = NonceSize + MaxLen + TagSize
  /\ opened.given.bytes[NonceSize + 1]
       # Encrypt(opened.key, opened.given.plain,
                 SubSeq(opened.given.bytes, 1, NonceSize))[NonceSize + 1]
  /\ opened.err = ErrDecrypt

\* Decrypt refused bytes cut short of a nonce
C24_WitnessMalformed ==
  /\ opened.op = "Decrypt" /\ ~opened.given.whole
  /\ Len(opened.given.bytes) = NonceSize - 1
  /\ opened.err = ErrMalformed

\* Decrypt refused what another Cypher encrypted
C24_WitnessOtherKey ==
  /\ opened.op = "Decrypt" /\ opened.given.whole /\ opened.given.err = ErrNil
  /\ opened.given.key # opened.key
  /\ opened.err = ErrDecrypt


====
